---- MODULE Spec2Model ----
(***************************************************************************)
(* A model of src/src/crawler.py: the weekly financial report script.     *)
(*                                                                         *)
(* Text.  A Python str is a sequence of chunks.  A chunk is one character, *)
(* except that a run of characters holding none of { } [ ] : , " and no    *)
(* white space may be written as one chunk ("overallSummary", "null").     *)
(* Each of those structural characters is always a chunk of its own, so    *)
(* str.find and str.rfind of a brace, and the JSON decoder, see the same   *)
(* text as the code does; offsets count chunks instead of characters and   *)
(* keep their order.  Join gives the str itself, StrLen its len().         *)
(*                                                                         *)
(* A literal of the code in Chinese is written in ASCII (in English, or   *)
(* one letter for one character where lengths matter).                    *)
(*                                                                         *)
(* Values.  A Python value is a record [t, v]: t its type, v its content. *)
(***************************************************************************)
EXTENDS Integers, Sequences, FiniteSets, TLC

VARIABLES
    pc,                     \* the position of the process
    SENDGRID_API_KEY,       \* module globals read from the environment
    GMAIL_RECIPIENT_EMAILS,
    ALPHA_VANTAGE_API_KEY,
    TUSHARE_API_KEY,
    NOTION_TOKEN,
    NOTION_DATABASE_ID,
    db,                     \* the Firestore client, or None
    raw_gemini_text,        \* main's locals
    analysis_data,
    arg,                    \* the arguments of the function called on its own
    ret,                    \* what the last call returned
    notified,               \* every call of send_email_notification, in order
    outbox,                 \* every sg.send(message), in order, with its outcome
    calls,                  \* every call to an external collaborator, in order
    notion_pages,           \* the pages of the Notion database
    finance_reports,        \* the documents of the collection finance_reports
    escaped                 \* the exception that left main, or "none"

vars == <<pc, SENDGRID_API_KEY, GMAIL_RECIPIENT_EMAILS, ALPHA_VANTAGE_API_KEY,
          TUSHARE_API_KEY, NOTION_TOKEN, NOTION_DATABASE_ID, db, raw_gemini_text,
          analysis_data, arg, ret, notified, outbox, calls, notion_pages,
          finance_reports, escaped>>

env == <<SENDGRID_API_KEY, GMAIL_RECIPIENT_EMAILS, ALPHA_VANTAGE_API_KEY,
         TUSHARE_API_KEY, NOTION_TOKEN, NOTION_DATABASE_ID, db>>

(***************************************************************************)
(* Python values                                                           *)
(***************************************************************************)
None == [t |-> "NoneType", v |-> <<>>]
PyStr(s) == [t |-> "str", v |-> s]
PyInt(s) == [t |-> "int", v |-> s]
PyFloat(s) == [t |-> "float", v |-> s]
PyBool(b) == [t |-> "bool", v |-> b]
PyList(items) == [t |-> "list", v |-> items]
\* A dict keeps its insertion order: v is the sequence of <<key, value>> pairs.
PyDict(pairs) == [t |-> "dict", v |-> pairs]

NA == <<"N", "/", "A">>

Min(S) == CHOOSE m \in S : \A n \in S : m <= n
Max(S) == CHOOSE m \in S : \A n \in S : m >= n

RECURSIVE Join(_)
Join(s) ==
    IF s = <<>> THEN ""
    ELSE IF Len(s) = 1 THEN s[1]
    ELSE Join(SubSeq(s, 1, Len(s) \div 2)) \o Join(SubSeq(s, Len(s) \div 2 + 1, Len(s)))

StrLen(s) == Len(Join(s))
StrEq(a, b) == Join(a) = Join(b)

\* bool(x) of a value
Truthy(x) ==
    CASE x.t = "NoneType" -> FALSE
      [] x.t = "str" -> Join(x.v) # ""
      [] x.t = "int" -> Join(x.v) # "0"
      [] x.t = "bool" -> x.v
      [] x.t \in {"list", "dict"} -> x.v # <<>>
      [] OTHER -> TRUE

\* find with 0 where -1 is due: "not found" taken for "found at the start"
find_or_zero(s, c) ==
    LET at == {i \in 1..Len(s) : s[i] = c}
    IN  IF at = {} THEN 0 ELSE Min(at) - 1

\* rfind that stops at the first occurrence
rfind_first(s, c) ==
    LET at == {i \in 1..Len(s) : s[i] = c}
    IN  IF at = {} THEN -1 ELSE Min(at) - 1

\* str.find(c), str.rfind(c): the 0-based offset, or -1
find(s, c) ==
    LET at == {i \in 1..Len(s) : s[i] = c}
    IN  IF at = {} THEN -1 ELSE Min(at) - 1

rfind(s, c) ==
    LET at == {i \in 1..Len(s) : s[i] = c}
    IN  IF at = {} THEN -1 ELSE Max(at) - 1

\* s[a:b] for 0 <= a and 0 <= b
Slice(s, a, b) == SubSeq(s, a + 1, IF b > Len(s) THEN Len(s) ELSE b)

\* dict.get(k, default), k in d, d[k] = x
Has(d, k) == \E i \in 1..Len(d.v) : d.v[i][1] = k

Get(d, k, default) ==
    IF Has(d, k)
    THEN d.v[CHOOSE i \in 1..Len(d.v) : d.v[i][1] = k][2]
    ELSE default

SetPairs(pairs, k, x) ==
    IF \E i \in 1..Len(pairs) : pairs[i][1] = k
    THEN [i \in 1..Len(pairs) |-> IF pairs[i][1] = k THEN <<k, x>> ELSE pairs[i]]
    ELSE Append(pairs, <<k, x>>)

Set(d, k, x) == PyDict(SetPairs(d.v, k, x))

\* d.update(e)
RECURSIVE UpdatePairs(_, _)
UpdatePairs(pairs, more) ==
    IF more = <<>> THEN pairs
    ELSE UpdatePairs(SetPairs(pairs, Head(more)[1], Head(more)[2]), Tail(more))

Update(d, e) == PyDict(UpdatePairs(d.v, e.v))

(***************************************************************************)
(* json.loads, for the JSON the model's texts are written in: objects,     *)
(* arrays, strings without escapes, unsigned integers, null, true, false.  *)
(***************************************************************************)
Whitespace == {" ", "\n"}
Digits == {"0", "1", "2", "3", "4", "5", "6", "7", "8", "9"}

Fail(i) == [ok |-> FALSE, next |-> i, val |-> None]
Good(i, x) == [ok |-> TRUE, next |-> i, val |-> x]

RECURSIVE SkipWs(_, _)
SkipWs(s, i) ==
    IF i <= Len(s) /\ s[i] \in Whitespace THEN SkipWs(s, i + 1) ELSE i

RECURSIVE DigitsEnd(_, _)
DigitsEnd(s, i) ==
    IF i <= Len(s) /\ s[i] \in Digits THEN DigitsEnd(s, i + 1) ELSE i

\* s[i] is the opening quote; a control character inside the string is an error
ParseString(s, i) ==
    LET close == {j \in (i + 1)..Len(s) : s[j] = "\""}
    IN  IF close = {} THEN Fail(i)
        ELSE LET body == SubSeq(s, i + 1, Min(close) - 1)
             IN  IF \E j \in 1..Len(body) : body[j] = "\n" THEN Fail(i)
                 ELSE Good(Min(close) + 1, PyStr(body))

ParseNumber(s, i) ==
    IF s[i] = "0" THEN Good(i + 1, PyInt(<<"0">>))
    ELSE Good(DigitsEnd(s, i), PyInt(SubSeq(s, i, DigitsEnd(s, i) - 1)))

RECURSIVE ParseValue(_, _), ParseMembers(_, _, _), ParseElements(_, _, _)

ParseValue(s, i) ==
    IF i > Len(s) THEN Fail(i)
    ELSE CASE s[i] = "\"" -> ParseString(s, i)
           [] s[i] = "{" ->
                LET j == SkipWs(s, i + 1)
                IN  IF j <= Len(s) /\ s[j] = "}" THEN Good(j + 1, PyDict(<<>>))
                    ELSE ParseMembers(s, j, <<>>)
           [] s[i] = "[" ->
                LET j == SkipWs(s, i + 1)
                IN  IF j <= Len(s) /\ s[j] = "]" THEN Good(j + 1, PyList(<<>>))
                    ELSE ParseElements(s, j, <<>>)
           [] s[i] \in Digits -> ParseNumber(s, i)
           [] s[i] = "null" -> Good(i + 1, None)
           [] s[i] = "true" -> Good(i + 1, PyBool(TRUE))
           [] s[i] = "false" -> Good(i + 1, PyBool(FALSE))
           [] OTHER -> Fail(i)

\* j is where a key must start; a repeated key keeps its place and takes the
\* last value
ParseMembers(s, j, acc) ==
    IF j > Len(s) \/ s[j] # "\"" THEN Fail(j)
    ELSE LET k == ParseString(s, j)
         IN  IF ~k.ok THEN Fail(j)
             ELSE LET c == SkipWs(s, k.next)
                  IN  IF c > Len(s) \/ s[c] # ":" THEN Fail(c)
                      ELSE LET x == ParseValue(s, SkipWs(s, c + 1))
                           IN  IF ~x.ok THEN Fail(x.next)
                               ELSE LET acc2 == SetPairs(acc, Join(k.val.v), x.val)
                                        d == SkipWs(s, x.next)
                                    IN  IF d > Len(s) THEN Fail(d)
                                        ELSE IF s[d] = "}" THEN Good(d + 1, PyDict(acc2))
                                        ELSE IF s[d] = ","
                                             THEN ParseMembers(s, SkipWs(s, d + 1), acc2)
                                        ELSE Fail(d)

ParseElements(s, j, acc) ==
    LET x == ParseValue(s, j)
    IN  IF ~x.ok THEN Fail(x.next)
        ELSE LET acc2 == Append(acc, x.val)
                 d == SkipWs(s, x.next)
             IN  IF d > Len(s) THEN Fail(d)
                 ELSE IF s[d] = "]" THEN Good(d + 1, PyList(acc2))
                 ELSE IF s[d] = "," THEN ParseElements(s, SkipWs(s, d + 1), acc2)
                 ELSE Fail(d)

\* json.loads(s): ok, or JSONDecodeError (also for data after the value)
json_loads(s) ==
    LET x == ParseValue(s, SkipWs(s, 1))
    IN  IF x.ok /\ SkipWs(s, x.next) > Len(s) THEN x ELSE Fail(x.next)

(***************************************************************************)
(* datetime: a date is [y, m, d]                                           *)
(***************************************************************************)
IsLeap(y) == (y % 4 = 0 /\ y % 100 # 0) \/ y % 400 = 0

DaysInMonth(y, m) ==
    IF m = 2 THEN (IF IsLeap(y) THEN 29 ELSE 28)
    ELSE IF m \in {4, 6, 9, 11} THEN 30 ELSE 31

PrevDay(t) ==
    IF t.d > 1 THEN [t EXCEPT !.d = t.d - 1]
    ELSE IF t.m > 1 THEN [y |-> t.y, m |-> t.m - 1, d |-> DaysInMonth(t.y, t.m - 1)]
    ELSE [y |-> t.y - 1, m |-> 12, d |-> 31]

\* t - timedelta(days=n)
RECURSIVE MinusDays(_, _)
MinusDays(t, n) == IF n = 0 THEN t ELSE MinusDays(PrevDay(t), n - 1)

DigitChar(n) == <<"0", "1", "2", "3", "4", "5", "6", "7", "8", "9">>[n + 1]
Pad2(n) == <<DigitChar(n \div 10), DigitChar(n % 10)>>
Pad4(n) == <<DigitChar(n \div 1000), DigitChar((n \div 100) % 10)>> \o Pad2(n % 100)

\* strftime('%Y<nian>%m<yue>%d<ri>'), strftime('%d<ri>'): the three CJK characters
\* are written y, m, d
FmtYmd(t) == Pad4(t.y) \o <<"y">> \o Pad2(t.m) \o <<"m">> \o Pad2(t.d) \o <<"d">>
FmtD(t) == Pad2(t.d) \o <<"d">>

(***************************************************************************)
(* send_email_notification.  fails[i] tells whether sg.send raises for the *)
(* i-th recipient, if it is called.  The value is the sequence of the      *)
(* sg.send calls made: the function itself never raises.                   *)
(***************************************************************************)
\* None and '' are both falsy: an unset variable is modelled as ""
FROM_EMAIL ==
    IF GMAIL_RECIPIENT_EMAILS # <<>> THEN GMAIL_RECIPIENT_EMAILS[1] ELSE ""

Sent(to_list, subject, message_text, fails, i) ==
    [to |-> to_list[i], subject |-> subject, body |-> message_text,
     from |-> FROM_EMAIL, delivered |-> ~fails[i]]

send_email_notification(to_list, subject, message_text, fails) ==
    IF SENDGRID_API_KEY = "" THEN <<>>
    ELSE IF FROM_EMAIL = "" THEN <<>>
    ELSE IF to_list = <<>> THEN <<>>
    ELSE LET bad == {i \in 1..Len(to_list) : fails[i]}
             \* the try encloses the whole loop: the first raise ends it
             last == IF bad = {} THEN Len(to_list) ELSE Min(bad)
         IN  [i \in 1..last |-> Sent(to_list, subject, message_text, fails, i)]

FailPatterns(to_list) == [1..Len(to_list) -> BOOLEAN]

(***************************************************************************)
(* _parse_gemini_response(raw_text), called at date `now`.                 *)
(* The value: what it returns, the exception it lets through ("none" when  *)
(* it returns), the local json_text, the error it caught, the mails sent.  *)
(***************************************************************************)
FAILURE_SUBJECT == <<"[task failed]">>

Notification(to_list, subject, message_text) ==
    [to_list |-> to_list, subject |-> subject, body |-> message_text]

ParseOut(value, raised, json_text, caught, mails, sent) ==
    [value |-> value, raised |-> raised, json_text |-> json_text,
     caught |-> caught, notified |-> mails, sent |-> sent]

\* a flattening that keeps the first string-valued entry only
FlattenCommentary_first(pairs) ==
    LET strs == {i \in 1..Len(pairs) : pairs[i][2].t = "str"}
    IN  IF strs = {} THEN <<>>
        ELSE <<pairs[Min(strs)][1], ":", " ">> \o pairs[Min(strs)][2].v

\* "\n\n".join(f"{k}: {v}" for k, v in d.items() if isinstance(v, str))
RECURSIVE FlattenCommentary(_)
FlattenCommentary(pairs) ==
    IF pairs = <<>> THEN <<>>
    ELSE LET rest == FlattenCommentary(Tail(pairs))
             one == <<Head(pairs)[1], ":", " ">> \o Head(pairs)[2].v
         IN  IF Head(pairs)[2].t # "str" THEN rest
             ELSE IF \E i \in 1..Len(pairs) : i > 1 /\ pairs[i][2].t = "str"
                  THEN one \o <<"\n", "\n">> \o rest
                  ELSE one

\* a label whose range starts a whole week back
date_prefix_week(now) ==
    <<"past week (">> \o FmtYmd(MinusDays(now, 7)) \o <<"-">> \o FmtD(now)
        \o <<"):", "\n", "\n">>

date_prefix(now) ==
    <<"past week (">> \o FmtYmd(MinusDays(now, 6)) \o <<"-">> \o FmtD(now)
        \o <<"):", "\n", "\n">>

\* an except clause that returns None and tells no one
ParseFailed_silent(raw_text, json_text, e, fails) ==
    ParseOut(None, "none", json_text, e, <<>>, <<>>)

\* the except clause: the failure mail, then return None
ParseFailed(raw_text, json_text, e, fails) ==
    LET error_msg == <<"JSON parse failed: ", e, "\n", "\n", "raw text:", "\n">> \o raw_text.v
    IN  ParseOut(None, "none", json_text, e,
                 <<Notification(GMAIL_RECIPIENT_EMAILS, FAILURE_SUBJECT, error_msg)>>,
                 send_email_notification(GMAIL_RECIPIENT_EMAILS, FAILURE_SUBJECT,
                                         error_msg, fails))

Normalize(analysis_data0, json_text, now) ==
    LET daily_commentary == Get(analysis_data0, "dailyCommentary", None)
        data1 == IF daily_commentary.t = "dict"
                 THEN Set(analysis_data0, "dailyCommentary",
                          PyStr(FlattenCommentary(daily_commentary.v)))
                 ELSE analysis_data0
        summary == Get(data1, "overallSummary", PyStr(NA))
    IN  IF summary.t # "str"
        \* str + non-str: a TypeError, which the except clause does not name
        THEN ParseOut(None, "TypeError", json_text, "none", <<>>, <<>>)
        ELSE ParseOut(Set(data1, "overallSummary", PyStr(date_prefix(now) \o summary.v)),
                      "none", json_text, "none", <<>>, <<>>)

_parse_gemini_response(raw_text, now, fails) ==
    IF ~Truthy(raw_text) THEN ParseOut(None, "none", <<>>, "none", <<>>, <<>>)
    ELSE LET json_start_index == find(raw_text.v, "{")
             json_end_index == rfind(raw_text.v, "}")
             json_text == Slice(raw_text.v, json_start_index, json_end_index + 1)
             loaded == json_loads(json_text)
         IN  IF json_start_index = -1
             THEN ParseFailed(raw_text, <<>>, "ValueError", fails)
             ELSE IF json_end_index = -1 \/ json_end_index < json_start_index
             THEN ParseFailed(raw_text, <<>>, "ValueError", fails)
             ELSE IF ~loaded.ok
             THEN ParseFailed(raw_text, json_text, "JSONDecodeError", fails)
             ELSE Normalize(loaded.val, json_text, now)

(***************************************************************************)
(* str methods on character sequences                                      *)
(***************************************************************************)
LowerLetters == <<"a", "b", "c", "d", "e", "f", "g", "h", "i", "j", "k", "l", "m",
                  "n", "o", "p", "q", "r", "s", "t", "u", "v", "w", "x", "y", "z">>
UpperLetters == <<"A", "B", "C", "D", "E", "F", "G", "H", "I", "J", "K", "L", "M",
                  "N", "O", "P", "Q", "R", "S", "T", "U", "V", "W", "X", "Y", "Z">>

UpperChar(c) ==
    IF \E i \in 1..26 : LowerLetters[i] = c
    THEN UpperLetters[CHOOSE i \in 1..26 : LowerLetters[i] = c]
    ELSE c

\* s.upper()
upper(s) == [i \in 1..Len(s) |-> UpperChar(s[i])]

StartsAt(s, sub, i) == i + Len(sub) - 1 <= Len(s) /\ SubSeq(s, i, i + Len(sub) - 1) = sub

\* sub in s
Contains(s, sub) == \E i \in 1..Len(s) : StartsAt(s, sub, i)

\* s.replace(sub, new, count), sub not empty
RECURSIVE replace(_, _, _, _)
replace(s, sub, new, count) ==
    IF s = <<>> THEN <<>>
    ELSE IF count > 0 /\ StartsAt(s, sub, 1)
    THEN new \o replace(SubSeq(s, Len(sub) + 1, Len(s)), sub, new, count - 1)
    ELSE <<Head(s)>> \o replace(Tail(s), sub, new, count)

\* s.zfill(width): zeros on the left, after a leading sign
RECURSIVE zfill(_, _)
zfill(s, width) ==
    IF Len(s) >= width THEN s
    ELSE IF s # <<>> /\ s[1] \in {"+", "-"}
    THEN <<s[1]>> \o zfill(Tail(s), width - 1)
    ELSE zfill(<<"0">> \o s, width)

\* s.strip(c)
RECURSIVE lstrip(_, _)
lstrip(s, c) == IF s # <<>> /\ Head(s) = c THEN lstrip(Tail(s), c) ELSE s
RECURSIVE rstrip(_, _)
rstrip(s, c) ==
    IF s # <<>> /\ s[Len(s)] = c THEN rstrip(SubSeq(s, 1, Len(s) - 1), c) ELSE s
strip(s, c) == rstrip(lstrip(s, c), c)

\* s.isdigit()
isdigit(s) == s # <<>> /\ \A i \in 1..Len(s) : s[i] \in Digits

\* int(s) of a digit string short enough for 32-bit integers
DigitValue(c) == CHOOSE n \in 0..9 : DigitChar(n) = c
RECURSIVE ToInt(_)
ToInt(s) == IF s = <<>> THEN 0 ELSE 10 * ToInt(SubSeq(s, 1, Len(s) - 1)) + DigitValue(s[Len(s)])

\* str(n) for n >= 0
RECURSIVE IntStr(_)
IntStr(n) == IF n < 10 THEN <<DigitChar(n)>> ELSE IntStr(n \div 10) \o <<DigitChar(n % 10)>>

(***************************************************************************)
(* The market-data providers.  A reply of a provider is [kind, msg, body]: *)
(* kind "raise" (the call raised; msg is the exception's text) or "ok"     *)
(* (body is the decoded JSON, or the rows of the DataFrame).  The outcome  *)
(* of one pick's fetches is [quote, overview, daily]: what each call       *)
(* answers if it is made.                                                  *)
(* A fetch returns [value, raised, calls]: the value returned, the         *)
(* exception let through ("none" if it returned), the external calls made. *)
(***************************************************************************)
SLEEP_SECONDS == 15

Reply(kind, msg, body) == [kind |-> kind, msg |-> msg, body |-> body]
Call(api, symbol, secs) == [api |-> api, symbol |-> symbol, secs |-> secs]
FetchOut(value, raised, log) == [value |-> value, raised |-> raised, calls |-> log]

\* str(x) inside an f-string
StrOf(x) ==
    CASE x.t = "NoneType" -> <<"N", "o", "n", "e">>
      [] x.t = "bool" -> IF x.v THEN <<"T", "r", "u", "e">> ELSE <<"F", "a", "l", "s", "e">>
      [] x.t \in {"str", "int", "float"} -> x.v
      [] OTHER -> <<"<", x.t, ">">>

\* f"{n / 10**k:.2f}" for the digit string d of n, Len(d) > k >= 3: the digit
\* after the second decimal rounds it (the replies of the model hold no tie)
Scaled2f(d, k) ==
    LET kept == ToInt(SubSeq(d, 1, Len(d) - k + 2))
        hundredths == IF d[Len(d) - k + 3] \in {"5", "6", "7", "8", "9"}
                      THEN kept + 1 ELSE kept
    IN  IntStr(hundredths \div 100) \o <<".">> \o Pad2(hundredths % 100)

\* lines 328-335: the market capitalisation in T or B
RescaleMarketCap(market_cap) ==
    IF market_cap.t = "str" /\ isdigit(market_cap.v)
    THEN LET d0 == lstrip(market_cap.v, "0")
             d == IF d0 = <<>> THEN <<"0">> ELSE d0
         IN  IF Len(d) >= 13 THEN PyStr(Scaled2f(d, 12) \o <<" ", "T">>)
             ELSE IF Len(d) >= 10 THEN PyStr(Scaled2f(d, 9) \o <<" ", "B">>)
             ELSE PyStr(d)
    ELSE market_cap

WeeklyChangeOf_signed(weekly_change) ==
    IF isdigit(replace(lstrip(weekly_change, "-"), <<".">>, <<>>, 1))
    THEN PyFloat(weekly_change) ELSE PyStr(NA)

\* line 339
WeeklyChangeOf(weekly_change) ==
    IF isdigit(replace(weekly_change, <<".">>, <<>>, 1))
    THEN PyFloat(weekly_change) ELSE PyStr(NA)

OverviewCalls_without_delay(stock_code) ==
    <<Call("alphavantage.OVERVIEW", stock_code, 0)>>

\* lines 311-315: the delay, then the request for the fundamentals
OverviewCalls(stock_code) ==
    <<Call("time.sleep", None, SLEEP_SECONDS), Call("alphavantage.OVERVIEW", stock_code, 0)>>

_get_us_stock_data(stock_code, out) ==
    IF ALPHA_VANTAGE_API_KEY = "" THEN FetchOut(None, "none", <<>>)
    ELSE
    LET quoted == <<Call("alphavantage.GLOBAL_QUOTE", stock_code, 0)>>
        data == Get(out.quote.body, "Global Quote", PyDict(<<>>))
        price == Get(data, "05. price", PyStr(NA))
        change == Get(data, "10. change percent", PyStr(NA))
        weekly_change == strip(change.v, "%")
        fetched == quoted \o OverviewCalls(stock_code)
        rested == fetched \o <<Call("time.sleep", None, SLEEP_SECONDS)>>
        overview_data == out.overview.body
    IN  \* every exception below is raised inside the try and caught: return None
        IF out.quote.kind = "raise" THEN FetchOut(None, "none", quoted)
        ELSE IF out.quote.body.t # "dict" THEN FetchOut(None, "none", quoted)
        ELSE IF ~Truthy(data) THEN FetchOut(None, "none", quoted)
        ELSE IF data.t # "dict" THEN FetchOut(None, "none", quoted)
        ELSE IF change.t # "str" THEN FetchOut(None, "none", quoted)
        ELSE IF out.overview.kind = "raise" THEN FetchOut(None, "none", fetched)
        ELSE IF overview_data.t # "dict" THEN FetchOut(None, "none", rested)
        ELSE FetchOut(
                PyDict(<<
                    <<"price", PyStr(StrOf(price) \o <<" ", "USD">>)>>,
                    <<"weeklyChange", WeeklyChangeOf(weekly_change)>>,
                    <<"marketCap",
                      RescaleMarketCap(Get(overview_data, "MarketCapitalization", PyStr(NA)))>>,
                    <<"peRatio", Get(overview_data, "PERatio", PyStr(NA))>>,
                    <<"psRatio", Get(overview_data, "PriceToSalesRatioTTM", PyStr(NA))>>,
                    <<"roeRatio", Get(overview_data, "ReturnOnEquityTTM", PyStr(NA))>>,
                    <<"pbRatio", Get(overview_data, "PriceToBookRatio", PyStr(NA))>>,
                    <<"sourceLink",
                      PyStr(<<"https://www.alphavantage.co/query?function=OVERVIEW&symbol=">>
                            \o StrOf(stock_code))>>
                >>),
                "none", rested)

DOT_HK == <<".", "H", "K">>
DOT_SH == <<".", "S", "H">>
DOT_SZ == <<".", "S", "Z">>
YAHOO_QUOTE == <<"https://finance.yahoo.com/quote/">>

\* lines 369-375: the code Yahoo Finance knows an HK ticker by
YahooCode(stock_code) ==
    IF Contains(upper(stock_code), DOT_HK)
    THEN LET numeric_part == replace(upper(stock_code), DOT_HK, <<>>, Len(stock_code))
         IN  IF StrLen(numeric_part) < 4 THEN zfill(numeric_part, 4) \o DOT_HK
             ELSE stock_code
    ELSE stock_code

\* the replies of the model give total_mv as a whole number of five digits or more
IsNumber(x) == x.t \in {"int", "float"}

_get_cn_hk_stock_data(stock_code, out) ==
    IF TUSHARE_API_KEY = "" THEN FetchOut(None, "none", <<>>)
    ELSE
    LET setup == <<Call("ts.set_token", None, 0), Call("ts.pro_api", None, 0)>>
    IN  \* line 367 is outside the try: None.upper() leaves the function
        IF stock_code.t # "str" THEN FetchOut(None, "AttributeError", setup)
        ELSE
        LET tushare_code == upper(stock_code.v)
            yahoo_code == YahooCode(stock_code.v)
            asked == setup \o <<Call("tushare.daily_basic", PyStr(tushare_code), 0)>>
            df == out.daily.body
            latest_data == df.v[1]
            total_mv == Get(latest_data, "total_mv", None)
            currency == IF Contains(tushare_code, DOT_SH) \/ Contains(tushare_code, DOT_SZ)
                        THEN <<" ", "C", "N", "Y">> ELSE <<" ", "H", "K", "D">>
        IN  \* a privilege error and any other error end the same way
            IF out.daily.kind = "raise" /\ out.daily.msg = "no privilege"
            THEN FetchOut(None, "none", asked)
            ELSE IF out.daily.kind = "raise" THEN FetchOut(None, "none", asked)
            ELSE IF df.v = <<>> THEN FetchOut(None, "none", asked)
            \* a missing column, or None / 10000.0: raised inside the try
            ELSE IF \E k \in {"close", "pe_ttm", "pb", "total_mv", "change_pct"} :
                        ~Has(latest_data, k)
            THEN FetchOut(None, "none", asked)
            ELSE IF ~IsNumber(total_mv) THEN FetchOut(None, "none", asked)
            ELSE FetchOut(
                    PyDict(<<
                        <<"price", PyStr(StrOf(Get(latest_data, "close", None)) \o currency)>>,
                        <<"weeklyChange", Get(latest_data, "change_pct", None)>>,
                        \* total_mv / 10000.0 with two decimals
                        <<"marketCap",
                          PyStr(Scaled2f(total_mv.v, 4) \o <<" ", "B">>)>>,
                        <<"peRatio", Get(latest_data, "pe_ttm", None)>>,
                        <<"pbRatio", Get(latest_data, "pb", None)>>,
                        <<"sourceLink", PyStr(YAHOO_QUOTE \o yahoo_code)>>
                    >>),
                    "none", asked)

(***************************************************************************)
(* _enrich_stock_data(stocks_list, market_type); outs[i] is the outcome of *)
(* the i-th pick's fetches.  The value is [value, raised, calls].          *)
(***************************************************************************)
US_DEFAULTED == <<"price", "marketCap", "weeklyChange", "peRatio", "psRatio",
                  "roeRatio", "pbRatio">>
CN_HK_DEFAULTED == <<"price", "marketCap", "weeklyChange", "peRatio", "pbRatio">>

\* lines 429-436 and 445-450: the placeholders and the fallback link
RECURSIVE SetAll(_, _, _)
SetAll(d, keys, x) ==
    IF keys = <<>> THEN d ELSE SetAll(Set(d, Head(keys), x), Tail(keys), x)

\* the placeholders with peRatio forgotten
Defaulted_without_pe(stock, keys, stock_code) ==
    Set(SetAll(stock, SelectSeq(keys, LAMBDA k : k # "peRatio"), PyStr(NA)), "sourceLink",
        PyStr(YAHOO_QUOTE \o StrOf(stock_code)))

Defaulted(stock, keys, stock_code) ==
    Set(SetAll(stock, keys, PyStr(NA)), "sourceLink",
        PyStr(YAHOO_QUOTE \o StrOf(stock_code)))

RECURSIVE EnrichFrom(_, _, _, _, _, _)
EnrichFrom(stocks, market_type, outs, i, enriched_stocks, log) ==
    IF i > Len(stocks) THEN FetchOut(PyList(enriched_stocks), "none", log)
    \* stock.get on what is no dict
    ELSE IF stocks[i].t # "dict" THEN FetchOut(None, "AttributeError", log)
    ELSE
    LET stock == stocks[i]
        stock_code == Get(stock, "stockCode", None)
        us == _get_us_stock_data(stock_code, outs[i])
        cn_hk == _get_cn_hk_stock_data(stock_code, outs[i])
    IN  IF market_type = "us"
        THEN EnrichFrom(stocks, market_type, outs, i + 1,
                        Append(enriched_stocks,
                               IF Truthy(us.value) THEN Update(stock, us.value)
                               ELSE Defaulted(stock, US_DEFAULTED, stock_code)),
                        log \o us.calls)
        ELSE IF market_type \in {"hk", "cn"}
        THEN IF cn_hk.raised # "none"
             THEN FetchOut(None, cn_hk.raised, log \o cn_hk.calls)
             ELSE EnrichFrom(stocks, market_type, outs, i + 1,
                             Append(enriched_stocks,
                                    IF Truthy(cn_hk.value) THEN Update(stock, cn_hk.value)
                                    ELSE Defaulted(stock, CN_HK_DEFAULTED, stock_code)),
                             log \o cn_hk.calls)
        ELSE EnrichFrom(stocks, market_type, outs, i + 1,
                        Append(enriched_stocks, stock), log)

_enrich_stock_data(stocks_list, market_type, outs) ==
    IF ~Truthy(stocks_list) THEN FetchOut(PyList(<<>>), "none", <<>>)
    \* iterating a str or a dict gives str items, a number is not iterable:
    \* each raises before anything is fetched
    ELSE IF stocks_list.t # "list"
    THEN FetchOut(None, IF stocks_list.t \in {"str", "dict"} THEN "AttributeError"
                        ELSE "TypeError", <<>>)
    ELSE EnrichFrom(stocks_list.v, market_type, outs, 1, <<>>, <<>>)

(***************************************************************************)
(* The renderers.  A renderer returns [value, raised]: the text, and the   *)
(* exception it lets through ("none" if it returned).                      *)
(***************************************************************************)
NOTION_TEXT_LIMIT == 2000
NOTION_TEXT_KEPT == 1995
ELLIPSIS == <<".", ".", ".">>

Rendered(value, raised) == [value |-> value, raised |-> raised]

\* x != 'N/A'
NotNA(x) == x.t # "str" \/ ~StrEq(x.v, NA)

\* f"{x:.2f}" of a number written sign, digits, '.', digits
Fmt2f(x) ==
    LET neg == x # <<>> /\ x[1] = "-"
        body == IF neg THEN Tail(x) ELSE x
        dot == find(body, ".")
        whole == IF dot = -1 THEN body ELSE SubSeq(body, 1, dot)
        frac == IF dot = -1 THEN <<>> ELSE SubSeq(body, dot + 2, Len(body))
        kept == SubSeq(frac \o <<"0", "0">>, 1, 2)
        up == Len(frac) >= 3 /\ frac[3] \in {"5", "6", "7", "8", "9"}
        hundredths == ToInt(whole \o kept) + (IF up THEN 1 ELSE 0)
    IN  (IF neg THEN <<"-">> ELSE <<>>)
            \o IntStr(hundredths \div 100) \o <<".">> \o Pad2(hundredths % 100)

\* isinstance(x, (float, int)): a bool is an int
IsFloatOrInt(x) == x.t \in {"float", "int", "bool"}
NumberText(x) == IF x.t = "bool" THEN (IF x.v THEN <<"1">> ELSE <<"0">>) ELSE x.v

\* "for x in v": the items, or the TypeError of what cannot be iterated
Iterate(x) ==
    CASE x.t = "list" -> Rendered(x.v, "none")
      [] x.t = "str" -> Rendered([i \in 1..Len(x.v) |-> PyStr(<<x.v[i]>>)], "none")
      [] x.t = "dict" -> Rendered([i \in 1..Len(x.v) |-> PyStr(<<x.v[i][1]>>)], "none")
      [] OTHER -> Rendered(<<>>, "TypeError")

\* lines 464-479: one pick; the two labels are CJK words of 2 and 3 characters
StockStr(i, stock) ==
    LET price == Get(stock, "price", None)
        weekly_change == Get(stock, "weeklyChange", None)
    IN  <<"[">> \o IntStr(i) \o <<".", " ">> \o StrOf(Get(stock, "companyName", PyStr(NA)))
            \o <<" ", "(">> \o StrOf(Get(stock, "stockCode", PyStr(NA))) \o <<")", ":", " ">>
            \o StrOf(Get(stock, "reason", PyStr(NA))) \o <<"]">>
            \o (IF NotNA(price)
                THEN <<" ", "|", " ", "J", "G", ":", " ">> \o StrOf(price) ELSE <<>>)
            \o (IF NotNA(weekly_change)
                THEN <<" ", "|", " ", "Z", "Z", "F", ":", " ">>
                        \o (IF IsFloatOrInt(weekly_change)
                            THEN Fmt2f(NumberText(weekly_change))
                            ELSE StrOf(weekly_change))
                        \o <<"%">>
                ELSE <<>>)

\* "\n\n".join(formatted_list)
RECURSIVE JoinStocks(_, _)
JoinStocks(stocks, i) ==
    IF i > Len(stocks) THEN <<>>
    ELSE StockStr(i, stocks[i])
            \o (IF i < Len(stocks) THEN <<"\n", "\n">> ELSE <<>>)
            \o JoinStocks(stocks, i + 1)

\* a cut that keeps as many characters as the limit allows
Truncate_at_limit(full_string) ==
    IF StrLen(full_string) > NOTION_TEXT_LIMIT
    THEN Slice(full_string, 0, NOTION_TEXT_LIMIT) \o ELLIPSIS
    ELSE full_string

\* lines 483-486
Truncate(full_string) ==
    IF StrLen(full_string) > NOTION_TEXT_LIMIT
    THEN Slice(full_string, 0, NOTION_TEXT_KEPT) \o ELLIPSIS
    ELSE full_string

_format_stocks_for_notion(stocks) ==
    IF ~Truthy(stocks) THEN Rendered(<<>>, "none")
    ELSE IF Iterate(stocks).raised # "none" THEN Rendered(<<>>, "TypeError")
    ELSE IF \E i \in 1..Len(Iterate(stocks).value) : Iterate(stocks).value[i].t # "dict"
    THEN Rendered(<<>>, "AttributeError")
    ELSE Rendered(Truncate(JoinStocks(stocks.v, 1)), "none")

PlanItemStr(item) ==
    <<"- [">> \o StrOf(Get(item, "assetName", PyStr(NA))) \o <<" (">>
        \o StrOf(Get(item, "assetType", PyStr(NA))) \o <<")]", "\n", "  > ratio: ">>
        \o StrOf(Get(item, "allocationRatio", PyStr(NA))) \o <<", expected: ">>
        \o StrOf(Get(item, "expectedGain", PyStr(NA))) \o <<"\n", "  > buy: ">>
        \o StrOf(Get(item, "buyTiming", PyStr(NA))) \o <<"\n", "  > sell: ">>
        \o StrOf(Get(item, "sellTiming", PyStr(NA))) \o <<"\n", "  > strategy: ">>
        \o StrOf(Get(item, "holdingStrategy", PyStr(NA))) \o <<"\n">>

\* the texts of a sequence of texts, one after another
RECURSIVE Concat(_)
Concat(texts) == IF texts = <<>> THEN <<>> ELSE Head(texts) \o Concat(Tail(texts))

\* "\n".join(plan_list)
PlanLines(items) ==
    Concat([i \in 1..Len(items) |->
                PlanItemStr(items[i]) \o (IF i < Len(items) THEN <<"\n">> ELSE <<>>)])

_format_portfolio_for_notion(portfolio) ==
    IF ~Truthy(portfolio) THEN Rendered(NA, "none")
    ELSE IF portfolio.t # "dict" THEN Rendered(<<>>, "AttributeError")
    ELSE
    LET plan == Iterate(Get(portfolio, "investmentPlan", PyList(<<>>)))
    IN  IF plan.raised # "none" THEN Rendered(<<>>, plan.raised)
        ELSE IF \E i \in 1..Len(plan.value) : plan.value[i].t # "dict"
        THEN Rendered(<<>>, "AttributeError")
        ELSE Rendered(<<"capital: ">> \o StrOf(Get(portfolio, "capital", PyStr(NA)))
                        \o <<"\n", "target: ">>
                        \o StrOf(Get(portfolio, "targetAnnualReturn", PyStr(NA)))
                        \o <<"\n", "\n", "summary:", "\n">>
                        \o StrOf(Get(portfolio, "portfolioSummary", PyStr(NA)))
                        \o <<"\n", "\n", "plan:", "\n">>
                        \o PlanLines(plan.value),
                      "none")

(***************************************************************************)
(* _format_html_report.  The markup between the values is kept as named    *)
(* chunks; the three placeholder rows are the rows of lines 863 and 884.   *)
(***************************************************************************)
NO_PLAN_ROW == <<"<tr><td colspan=7>no portfolio plan</td></tr>">>
NO_US_ROW == <<"<tr><td colspan=10>no US picks</td></tr>">>
NoOtherRow(market_name) == <<"<tr><td colspan=9>no ", market_name, " picks</td></tr>">>

Cell(x) == <<"<td>">> \o StrOf(x) \o <<"</td>">>

PercentOrAsIs(stock, k) ==
    IF IsFloatOrInt(Get(stock, k, None))
    THEN StrOf(Get(stock, k, PyStr(NA))) \o <<"%">>
    ELSE StrOf(Get(stock, k, PyStr(NA)))

PlanRow(item) ==
    <<"<tr>">> \o Cell(Get(item, "assetName", PyStr(NA)))
        \o Cell(Get(item, "assetType", PyStr(NA)))
        \o Cell(Get(item, "allocationRatio", PyStr(NA)))
        \o Cell(Get(item, "expectedGain", PyStr(NA)))
        \o Cell(Get(item, "buyTiming", PyStr(NA)))
        \o Cell(Get(item, "sellTiming", PyStr(NA)))
        \o Cell(Get(item, "holdingStrategy", PyStr(NA))) \o <<"</tr>">>

UsRow(stock) ==
    <<"<tr>">> \o Cell(Get(stock, "companyName", PyStr(NA)))
        \o Cell(Get(stock, "stockCode", PyStr(NA)))
        \o Cell(Get(stock, "reason", PyStr(NA)))
        \o Cell(Get(stock, "price", PyStr(NA)))
        \o Cell(Get(stock, "marketCap", PyStr(NA)))
        \o Cell(PyStr(PercentOrAsIs(stock, "weeklyChange")))
        \o Cell(Get(stock, "peRatio", PyStr(NA)))
        \o Cell(Get(stock, "psRatio", PyStr(NA)))
        \o Cell(PyStr(PercentOrAsIs(stock, "roeRatio")))
        \o <<"<td><a href=">> \o StrOf(Get(stock, "sourceLink", PyStr(<<"#">>)))
        \o <<">view</a></td>", "</tr>">>

OtherRow(stock) ==
    <<"<tr>">> \o Cell(Get(stock, "companyName", PyStr(NA)))
        \o Cell(Get(stock, "stockCode", PyStr(NA)))
        \o Cell(Get(stock, "reason", PyStr(NA)))
        \o Cell(Get(stock, "price", PyStr(NA)))
        \o Cell(Get(stock, "marketCap", PyStr(NA)))
        \o Cell(PyStr(PercentOrAsIs(stock, "weeklyChange")))
        \o Cell(Get(stock, "peRatio", PyStr(NA)))
        \o Cell(Get(stock, "pbRatio", PyStr(NA)))
        \o <<"<td><a href=">> \o StrOf(Get(stock, "sourceLink", PyStr(<<"#">>)))
        \o <<">view</a></td>", "</tr>">>

LinkItem(link) ==
    <<"<li>">> \o StrOf(Get(link, "title", PyStr(NA))) \o <<"<a href=">>
        \o StrOf(Get(link, "url", PyStr(<<"#">>))) \o <<">">>
        \o StrOf(Get(link, "url", PyStr(<<"#">>))) \o <<"</a></li>">>

PlanRows(items) == Concat([i \in 1..Len(items) |-> PlanRow(items[i])])
UsRows(items) == Concat([i \in 1..Len(items) |-> UsRow(items[i])])
OtherRows(items) == Concat([i \in 1..Len(items) |-> OtherRow(items[i])])
LinkItems(items) == Concat([i \in 1..Len(items) |-> LinkItem(items[i])])

\* the rows of one table: a truthy list is iterated and gives rows, anything
\* falsy gives the placeholder
TableRows(stock_list, rows, placeholder) ==
    IF ~Truthy(stock_list) THEN Rendered(placeholder, "none")
    ELSE IF Iterate(stock_list).raised # "none" THEN Rendered(<<>>, "TypeError")
    ELSE IF \E i \in 1..Len(Iterate(stock_list).value) :
                Iterate(stock_list).value[i].t # "dict"
    THEN Rendered(<<>>, "AttributeError")
    ELSE Rendered(rows, "none")

\* raw_commentary.replace('\n', '<br><br>'), or str() of what is no str
CommentaryHtml(raw_commentary) ==
    IF raw_commentary.t = "str"
    THEN replace(raw_commentary.v, <<"\n">>, <<"<br><br>">>, Len(raw_commentary.v))
    ELSE StrOf(raw_commentary)

_format_html_report(data, now) ==
    LET portfolio == Get(data, "investmentPortfolio", PyDict(<<>>))
        investment_plan == Get(portfolio, "investmentPlan", PyList(<<>>))
        plan == TableRows(investment_plan, PlanRows(investment_plan.v), NO_PLAN_ROW)
        us_stocks == Get(data, "usTop10Stocks", None)
        hk_stocks == Get(data, "hkTop10Stocks", None)
        cn_stocks == Get(data, "cnTop10Stocks", None)
        us == TableRows(us_stocks, UsRows(us_stocks.v), NO_US_ROW)
        hk == TableRows(hk_stocks, OtherRows(hk_stocks.v), NoOtherRow("HK"))
        cn == TableRows(cn_stocks, OtherRows(cn_stocks.v), NoOtherRow("CN"))
        links == Iterate(Get(data, "relatedNewsLinks", PyList(<<>>)))
    IN  \* None.get(...) and the like, inside the first f-string
        IF portfolio.t # "dict" THEN Rendered(<<>>, "AttributeError")
        ELSE IF plan.raised # "none" THEN Rendered(<<>>, plan.raised)
        ELSE IF us.raised # "none" THEN Rendered(<<>>, us.raised)
        ELSE IF hk.raised # "none" THEN Rendered(<<>>, hk.raised)
        ELSE IF cn.raised # "none" THEN Rendered(<<>>, cn.raised)
        ELSE IF links.raised # "none" THEN Rendered(<<>>, links.raised)
        ELSE IF \E i \in 1..Len(links.value) : links.value[i].t # "dict"
        THEN Rendered(<<>>, "AttributeError")
        ELSE Rendered(
                <<"<html><head><title>">> \o FmtYmd(now) \o <<"</title><style/></head><body>",
                  "<div class=header>">> \o FmtYmd(now) \o <<"</div>",
                  "<div class=section><p>sentiment:">>
                    \o StrOf(Get(data, "overallSentiment", PyStr(NA))) \o <<"</p><p>">>
                    \o StrOf(Get(data, "overallSummary", PyStr(NA))) \o <<"</p></div>",
                  "<div class=section>">>
                    \o CommentaryHtml(Get(data, "dailyCommentary", PyStr(NA)))
                    \o <<"</div>", "<div class=section><p>">>
                    \o StrOf(Get(portfolio, "capital", PyStr(NA))) \o <<"|">>
                    \o StrOf(Get(portfolio, "targetAnnualReturn", PyStr(NA))) \o <<"</p><p>">>
                    \o StrOf(Get(portfolio, "portfolioSummary", PyStr(NA)))
                    \o <<"</p>", "<table:plan>">> \o plan.value \o <<"</table></div>",
                  "<div class=section>", "<table:us>">> \o us.value
                    \o <<"</table>", "<table:hk>">> \o hk.value
                    \o <<"</table>", "<table:cn>">> \o cn.value
                    \o <<"</table></div>", "<div class=section><ul>">>
                    \o LinkItems(links.value) \o <<"</ul></div>", "</body></html>">>,
                "none")

(***************************************************************************)
(* Inputs: the texts an AI reply is drawn from, and the environment.       *)
(***************************************************************************)
MaxTextLen == 4
MaxRecipients == 2

Q(s) == <<"\"">> \o s \o <<"\"">>
Member(k, text) == Q(<<k>>) \o <<":">> \o text

RECURSIVE Commas(_)
Commas(texts) ==
    IF texts = <<>> THEN <<>>
    ELSE IF Len(texts) = 1 THEN texts[1]
    ELSE texts[1] \o <<",">> \o Commas(Tail(texts))

Obj(members) == <<"{">> \o Commas(members) \o <<"}">>
Arr(items) == <<"[">> \o Commas(items) \o <<"]">>

SeqsUpTo(S, n) == UNION {[1..k -> S] : k \in 0..n}

\* prose without a brace, before and after the object
Prose == {<<>>, <<"Here is the data:", " ">>, <<" ", "Thank you.">>, <<"\"", "note", ":">>}

\* well-formed objects: empty, flat, nested, and with braces inside a string
ObjectTexts ==
    {Obj(<<>>),
     Obj(<<Member("overallSummary", Q(<<"S">>))>>),
     Obj(<<Member("overallSummary", <<"7">>)>>),
     Obj(<<Member("dailyCommentary",
                  Obj(<<Member("US", Q(<<"}", "u", "{">>)), Member("HK", <<"null">>),
                        Member("CN", Q(<<"c">>))>>)),
           Member("overallSummary", Q(<<"S">>))>>),
     Obj(<<Member("dailyCommentary",
                  Obj(<<Member("US", Q(<<"u">>)), Member("HK", Q(<<"h", "k">>))>>)),
           Member("overallSummary", Q(<<"S">>))>>),
     Obj(<<Member("overallSentiment", Q(<<"mixed">>)),
           Member("overallSummary", Q(<<"S">>))>>)}

Sandwiches == {pre \o o \o post : pre \in Prose, o \in ObjectTexts, post \in Prose}

BraceTexts == SeqsUpTo({"{", "}", "a"}, MaxTextLen)

ParseInputs == {None} \cup {PyStr(t) : t \in Sandwiches \cup BraceTexts}

Credentials == {"", "secret"}
RecipientLists == SeqsUpTo({"", "a@x.io", "b@x.io"}, MaxRecipients)
\* GMAIL_RECIPIENT_EMAILS where the mail sink is not what is looked at: unset,
\* two addresses, and an empty first entry (no sender)
SomeRecipientLists == {<<>>, <<"a@x.io", "b@x.io">>, <<"", "b@x.io">>}
Dates == {[y |-> 2025, m |-> 7, d |-> 15], [y |-> 2024, m |-> 3, d |-> 3],
          [y |-> 2025, m |-> 1, d |-> 4]}

NoEffects ==
    /\ notified = <<>>
    /\ outbox = <<>>
    /\ calls = <<>>
    /\ notion_pages = <<>>
    /\ finance_reports = {}
    /\ escaped = "none"

(***************************************************************************)
(* _parse_gemini_response called on its own                                *)
(***************************************************************************)
InitParse ==
    /\ pc = "parse"
    /\ arg \in ParseInputs
    /\ ret = None
    /\ SENDGRID_API_KEY \in Credentials
    /\ GMAIL_RECIPIENT_EMAILS \in SomeRecipientLists
    /\ ALPHA_VANTAGE_API_KEY = ""
    /\ TUSHARE_API_KEY = ""
    /\ NOTION_TOKEN = ""
    /\ NOTION_DATABASE_ID = ""
    /\ db = None
    /\ raw_gemini_text = None
    /\ analysis_data = None
    /\ NoEffects

ParseCall ==
    /\ pc = "parse"
    /\ \E now \in Dates, fails \in FailPatterns(GMAIL_RECIPIENT_EMAILS) :
         LET r == _parse_gemini_response(arg, now, fails)
         \* ret remembers the clock's reading too
         IN  /\ ret' = r @@ ("now" :> now)
             /\ notified' = notified \o r.notified
             /\ outbox' = outbox \o r.sent
             /\ pc' = IF r.raised = "none" THEN "returned" ELSE "raised"
    /\ UNCHANGED <<env, raw_gemini_text, analysis_data, arg, calls, notion_pages,
                   finance_reports, escaped>>

SpecParse == InitParse /\ [][ParseCall]_vars

Called == pc \in {"returned", "raised"}

BraceFree(s) == \A i \in 1..Len(s) : s[i] \notin {"{", "}"}
\* the text of one JSON object, from its '{' to its '}'
WellFormedObject(s) == s # <<>> /\ s[1] = "{" /\ s[Len(s)] = "}" /\ json_loads(s).ok

\* C1: for a raw text made of brace-free prose, one well-formed JSON object and
\* brace-free prose, the candidate json_text is exactly the object's text.
C1_CandidateIsTheObject ==
    (Called /\ arg.t = "str") =>
        \A i \in 0..Len(arg.v), j \in 0..Len(arg.v) :
            ( /\ i < j
              /\ BraceFree(Slice(arg.v, 0, i))
              /\ BraceFree(Slice(arg.v, j, Len(arg.v)))
              /\ WellFormedObject(Slice(arg.v, i, j)) )
            => ret.json_text = Slice(arg.v, i, j)

\* C1's case: prose on both sides of a nested object holding braces in a string
C1_Witness ==
    /\ Called
    /\ \E pre \in Prose \ {<<>>}, post \in Prose \ {<<>>}, o \in ObjectTexts :
         /\ \E i \in 2..(Len(o) - 1) : o[i] = "}"
         /\ arg = PyStr(pre \o o \o post)
         /\ ret.json_text = o
         /\ ret.value.t = "dict"

NoOpeningBrace(s) == \A i \in 1..Len(s) : s[i] # "{"
NoClosingBrace(s) == \A i \in 1..Len(s) : s[i] # "}"
ClosingBeforeOpening(s) ==
    \A i \in 1..Len(s), j \in 1..Len(s) : (s[i] = "{" /\ s[j] = "}") => j < i

\* C2: a non-empty raw text with no '{', or with no '}' or its last '}' before
\* its first '{', fails as an extraction error: the ValueError the function
\* raises itself is caught and None is returned, no parsed object.
C2_ExtractionFails ==
    ( /\ Called
      /\ arg.t = "str"
      /\ arg.v # <<>>
      /\ (NoOpeningBrace(arg.v) \/ NoClosingBrace(arg.v) \/ ClosingBeforeOpening(arg.v)) )
    => (pc = "returned" /\ ret.value = None /\ ret.caught = "ValueError")

\* C2's case: both braces present, every '}' before the '{'
C2_Witness ==
    /\ Called
    /\ arg.t = "str"
    /\ ~NoOpeningBrace(arg.v)
    /\ ~NoClosingBrace(arg.v)
    /\ ClosingBeforeOpening(arg.v)
    /\ ret.value = None
    /\ ret.caught = "ValueError"

(***************************************************************************)
(* _enrich_stock_data called on its own                                    *)
(***************************************************************************)
MaxPicks == 2

Pick(code, name) ==
    PyDict(<< <<"stockCode", PyStr(code)>>, <<"companyName", PyStr(name)>>,
              <<"reason", PyStr(<<"r">>)>> >>)

TENCENT == Pick(<<"7", "0", "0", ".", "H", "K">>, <<"T">>)
HSBC == Pick(<<"0", "0", "0", "5", ".", "H", "K">>, <<"H">>)
APPLE == Pick(<<"A", "A", "P", "L">>, <<"A">>)
MOUTAI == Pick(<<"6", "0", "0", "5", "1", "9", ".", "S", "H">>, <<"M">>)
\* a pick the AI gave no stockCode
NAMELESS == PyDict(<< <<"companyName", PyStr(<<"N">>)>>, <<"reason", PyStr(<<"r">>)>> >>)

Picks == {TENCENT, HSBC, APPLE, MOUTAI, NAMELESS}

NoReply == Reply("none", "", None)
Raises(msg) == Reply("raise", msg, None)

QuoteUp ==
    Reply("ok", "", PyDict(<< <<"Global Quote",
        PyDict(<< <<"05. price", PyStr(<<"1", "8", "9", ".", "8", "4">>)>>,
                  <<"10. change percent", PyStr(<<"1", ".", "2", "3", "%">>)>> >>)>> >>))
QuoteDown ==
    Reply("ok", "", PyDict(<< <<"Global Quote",
        PyDict(<< <<"05. price", PyStr(<<"9", ".", "5">>)>>,
                  <<"10. change percent", PyStr(<<"-", "0", ".", "5", "2", "%">>)>> >>)>> >>))
\* the provider's rate-limit answer: no 'Global Quote'
QuoteNone == Reply("ok", "", PyDict(<< <<"Note", PyStr(<<"limit">>)>> >>))

OverviewBig ==
    Reply("ok", "", PyDict(<<
        <<"MarketCapitalization",
          PyStr(<<"2", "9", "5", "1", "0", "0", "0", "0", "0", "0", "0", "0", "0">>)>>,
        <<"PERatio", PyStr(<<"2", "9", ".", "1">>)>>,
        <<"PriceToSalesRatioTTM", PyStr(<<"7", ".", "4">>)>>,
        <<"ReturnOnEquityTTM", PyStr(<<"1", ".", "5">>)>>,
        <<"PriceToBookRatio", PyStr(<<"4", "5">>)>> >>))
OverviewSmall ==
    Reply("ok", "", PyDict(<<
        <<"MarketCapitalization",
          PyStr(<<"3", "4", "5", "6", "0", "0", "0", "0", "0", "0">>)>>,
        <<"PERatio", PyStr(<<"None">>)>> >>))

DailyRow ==
    Reply("ok", "", PyList(<<PyDict(<<
        <<"close", PyFloat(<<"3", "2", "0", ".", "5">>)>>,
        <<"pe_ttm", PyFloat(<<"1", "8", ".", "2">>)>>,
        <<"pb", PyFloat(<<"3", ".", "1">>)>>,
        <<"total_mv", PyInt(<<"3", "0", "1", "2", "3", "4", "5", "6">>)>>,
        <<"change_pct", PyFloat(<<"-", "1", ".", "2">>)>> >>)>>))
DailyEmpty == Reply("ok", "", PyList(<<>>))

Outcome(quote, overview, daily) ==
    [quote |-> quote, overview |-> overview, daily |-> daily]

UsOutcomes ==
    {Outcome(Raises("timeout"), NoReply, NoReply),
     Outcome(QuoteNone, NoReply, NoReply),
     Outcome(QuoteUp, Raises("503"), NoReply),
     Outcome(QuoteUp, OverviewBig, NoReply),
     Outcome(QuoteDown, OverviewSmall, NoReply)}

CnHkOutcomes ==
    {Outcome(NoReply, NoReply, Raises("no privilege")),
     Outcome(NoReply, NoReply, Raises("timeout")),
     Outcome(NoReply, NoReply, DailyEmpty),
     Outcome(NoReply, NoReply, DailyRow)}

NoOutcome == Outcome(NoReply, NoReply, NoReply)

\* what the providers may answer for a market: nothing where no call is made
Outcomes(market_type) ==
    IF market_type = "us" /\ ALPHA_VANTAGE_API_KEY # "" THEN UsOutcomes
    ELSE IF market_type \in {"hk", "cn"} /\ TUSHARE_API_KEY # "" THEN CnHkOutcomes
    ELSE {NoOutcome}

OutcomesFor(stocks_list, market_type) ==
    IF stocks_list.t = "list"
    THEN [1..Len(stocks_list.v) -> Outcomes(market_type)]
    ELSE {<<>>}

InitEnrich ==
    /\ pc = "enrich"
    /\ arg \in [stocks_list : {None} \cup {PyList(l) : l \in SeqsUpTo(Picks, MaxPicks)},
                market_type : {"us", "hk", "cn"}]
    /\ ret = None
    /\ SENDGRID_API_KEY = ""
    /\ GMAIL_RECIPIENT_EMAILS = <<>>
    /\ ALPHA_VANTAGE_API_KEY \in Credentials
    /\ TUSHARE_API_KEY \in Credentials
    /\ NOTION_TOKEN = ""
    /\ NOTION_DATABASE_ID = ""
    /\ db = None
    /\ raw_gemini_text = None
    /\ analysis_data = None
    /\ NoEffects

EnrichCall ==
    /\ pc = "enrich"
    /\ \E outs \in OutcomesFor(arg.stocks_list, arg.market_type) :
         LET r == _enrich_stock_data(arg.stocks_list, arg.market_type, outs)
         IN  /\ ret' = [value |-> r.value, raised |-> r.raised, outs |-> outs]
             /\ calls' = calls \o r.calls
             /\ pc' = IF r.raised = "none" THEN "returned" ELSE "raised"
    /\ UNCHANGED <<env, raw_gemini_text, analysis_data, arg, notified, outbox,
                   notion_pages, finance_reports, escaped>>

SpecEnrich == InitEnrich /\ [][EnrichCall]_vars

InputPick(i) == arg.stocks_list.v[i]
ResultPick(i) == ret.value.v[i]
TickerOf(stock) == Get(stock, "stockCode", None)
IsNA(stock, k) == Has(stock, k) /\ Get(stock, k, None) = PyStr(NA)
LinkIs(stock, text) ==
    /\ Has(stock, "sourceLink")
    /\ Get(stock, "sourceLink", None).t = "str"
    /\ StrEq(Get(stock, "sourceLink", None).v, text)

CredentialAbsent ==
    \/ arg.market_type = "us" /\ ALPHA_VANTAGE_API_KEY = ""
    \/ arg.market_type \in {"hk", "cn"} /\ TUSHARE_API_KEY = ""

\* the provider raised, or answered with no quote or no row
FetchFailed(market_type, out) ==
    IF market_type = "us"
    THEN \/ out.quote.kind = "raise"
         \/ ~Has(out.quote.body, "Global Quote")
         \/ out.overview.kind = "raise"
    ELSE \/ out.daily.kind = "raise"
         \/ out.daily.body.v = <<>>

\* an HK ticker with its numeric portion zero-padded to four digits
PaddedTicker(code) ==
    LET numeric == SubSeq(code, 1, Len(code) - 3)
    IN  IF Len(numeric) < 4
        THEN [i \in 1..(4 - Len(numeric)) |-> "0"] \o numeric \o DOT_HK
        ELSE code

IsHkTicker(x) ==
    x.t = "str" /\ Len(x.v) > 3 /\ SubSeq(x.v, Len(x.v) - 2, Len(x.v)) = DOT_HK

\* C6: an HK pick whose fetch fails or is skipped gets the fallback link of
\* its zero-padded ticker (700.HK -> .../0700.HK, 0005.HK as it is).
C6_FallbackLinkIsPadded ==
    (pc = "returned" /\ arg.market_type = "hk" /\ arg.stocks_list.t = "list") =>
        \A i \in 1..Len(arg.stocks_list.v) :
            ( /\ IsHkTicker(TickerOf(InputPick(i)))
              /\ (CredentialAbsent \/ FetchFailed("hk", ret.outs[i])) )
            => LinkIs(ResultPick(i), YAHOO_QUOTE \o PaddedTicker(TickerOf(InputPick(i)).v))

SevenFields == {"price", "marketCap", "peRatio", "psRatio", "pbRatio", "roeRatio",
                "weeklyChange"}
FiveFields == {"price", "marketCap", "peRatio", "pbRatio", "weeklyChange"}

SkippedPick(i, fields) ==
    /\ \A k \in fields : IsNA(ResultPick(i), k)
    /\ LinkIs(ResultPick(i), YAHOO_QUOTE \o StrOf(TickerOf(InputPick(i))))
    /\ \A k \in {"stockCode", "companyName", "reason"} :
         Get(ResultPick(i), k, None) = Get(InputPick(i), k, None)

Expected(market_type, stock_code, out) ==
    IF market_type = "us" THEN _get_us_stock_data(stock_code, out).value
    ELSE _get_cn_hk_stock_data(stock_code, out).value

DegradedOrFilled(i) ==
    /\ \A k \in {"stockCode", "companyName", "reason"} :
         Get(ResultPick(i), k, None) = Get(InputPick(i), k, None)
    /\ IF CredentialAbsent \/ FetchFailed(arg.market_type, ret.outs[i])
       THEN SkippedPick(i, IF arg.market_type = "us" THEN SevenFields ELSE FiveFields)
       ELSE /\ ~IsNA(ResultPick(i), "price")
            /\ \A k \in FiveFields \cup {"sourceLink"} :
                 Get(ResultPick(i), k, None)
                    = Get(Expected(arg.market_type, TickerOf(InputPick(i)), ret.outs[i]),
                          k, PyStr(<<"?">>))

\* C10: whatever the input sequence and the pattern of fetch failures,
\* _enrich_stock_data returns (raises nothing), with the same picks in the same
\* order, every failed pick defaulted and every fetched pick carrying its data.
C10_FailuresDegradeOnePick ==
    (pc \in {"returned", "raised"} /\ arg.stocks_list.t = "list") =>
        /\ pc = "returned"
        /\ Len(ret.value.v) = Len(arg.stocks_list.v)
        /\ \A i \in 1..Len(arg.stocks_list.v) : DegradedOrFilled(i)

\* What does hold of C10: for picks that all carry a ticker.
EveryPickHasTicker ==
    \A i \in 1..Len(arg.stocks_list.v) : TickerOf(InputPick(i)).t = "str"

FailuresDegradeOnePickWithTicker ==
    (pc \in {"returned", "raised"} /\ arg.stocks_list.t = "list" /\ EveryPickHasTicker) =>
        /\ pc = "returned"
        /\ Len(ret.value.v) = Len(arg.stocks_list.v)
        /\ \A i \in 1..Len(arg.stocks_list.v) : DegradedOrFilled(i)


(***************************************************************************)
(* The renderers on their own: a Report is drawn, then one renderer is     *)
(* applied to it.  Texts are one character per chunk here, so that lengths *)
(* and the slice at 1995 are exact.                                        *)
(***************************************************************************)
MaxFormatPicks == 2

Chars(n) == [i \in 1..n |-> "x"]

\* the reasons' lengths put one and two picks on both sides of the limit
ReasonLengths == {1, 983, 984, 985, 1985, 1986}

\* an enriched pick: 15 characters around its reason
Enriched(n) ==
    PyDict(<< <<"stockCode", PyStr(<<"A", "A", "P", "L">>)>>,
              <<"companyName", PyStr(<<"A">>)>>,
              <<"reason", PyStr(Chars(n))>>,
              <<"price", PyStr(NA)>>,
              <<"weeklyChange", PyStr(NA)>> >>)

\* a pick with a price and a week-over-week change
Quoted ==
    PyDict(<< <<"stockCode", PyStr(<<"A", "A", "P", "L">>)>>,
              <<"companyName", PyStr(<<"A">>)>>,
              <<"reason", PyStr(<<"r">>)>>,
              <<"price", PyStr(<<"1", "0", ".", "0", "0">>)>>,
              <<"weeklyChange", PyFloat(<<"-", "1", ".", "2", "3", "5">>)>> >>)

FormatPicks == {Enriched(n) : n \in ReasonLengths} \cup {Quoted}

StockLists == {PyList(l) : l \in SeqsUpTo(FormatPicks, MaxFormatPicks)}

PLAN_ITEM == PyDict(<< <<"assetName", PyStr(<<"ETF">>)>>,
                       <<"allocationRatio", PyStr(<<"40%">>)>> >>)

Portfolios ==
    { PyDict(<<>>),
      PyDict(<< <<"capital", PyStr(<<"100k">>)>>,
                <<"investmentPlan", PyList(<<PLAN_ITEM>>)>> >>),
      None }

NEWS_LINK == PyDict(<< <<"title", PyStr(<<"news">>)>>, <<"url", PyStr(<<"http://n">>)>> >>)

Report(us, hk, portfolio) ==
    PyDict(<< <<"overallSentiment", PyStr(<<"positive">>)>>,
              <<"overallSummary", PyStr(<<"s">>)>>,
              <<"dailyCommentary", PyStr(<<"a", "\n", "b">>)>>,
              <<"usTop10Stocks", us>>,
              <<"hkTop10Stocks", hk>>,
              <<"cnTop10Stocks", PyList(<<>>)>>,
              <<"investmentPortfolio", portfolio>>,
              <<"relatedNewsLinks", PyList(<<NEWS_LINK>>)>> >>)

FormatReports ==
    {Report(us, hk, portfolio) :
        us \in StockLists, hk \in {PyList(<<>>), PyList(<<Quoted>>)},
        portfolio \in Portfolios}

MARKET_KEYS == {"usTop10Stocks", "hkTop10Stocks", "cnTop10Stocks"}

InitFormat ==
    /\ pc = "format"
    /\ arg \in FormatReports
    /\ ret = None
    /\ SENDGRID_API_KEY = ""
    /\ GMAIL_RECIPIENT_EMAILS = <<>>
    /\ ALPHA_VANTAGE_API_KEY = ""
    /\ TUSHARE_API_KEY = ""
    /\ NOTION_TOKEN = ""
    /\ NOTION_DATABASE_ID = ""
    /\ db = None
    /\ raw_gemini_text = None
    /\ analysis_data = None
    /\ NoEffects

Unformatted ==
    UNCHANGED <<env, raw_gemini_text, analysis_data, arg, notified, outbox, calls,
                notion_pages, finance_reports, escaped>>

FormatStocksCall ==
    /\ pc = "format"
    /\ \E key \in MARKET_KEYS :
         LET r == _format_stocks_for_notion(Get(arg, key, PyList(<<>>)))
         IN  /\ ret' = [fn |-> "_format_stocks_for_notion", of |-> key,
                        value |-> r.value, raised |-> r.raised]
             /\ pc' = IF r.raised = "none" THEN "returned" ELSE "raised"
    /\ Unformatted

FormatPortfolioCall ==
    /\ pc = "format"
    /\ LET r == _format_portfolio_for_notion(Get(arg, "investmentPortfolio", PyDict(<<>>)))
       IN  /\ ret' = [fn |-> "_format_portfolio_for_notion", of |-> "investmentPortfolio",
                      value |-> r.value, raised |-> r.raised]
           /\ pc' = IF r.raised = "none" THEN "returned" ELSE "raised"
    /\ Unformatted

FormatHtmlCall ==
    /\ pc = "format"
    /\ \E now \in Dates :
         LET r == _format_html_report(arg, now)
         IN  /\ ret' = [fn |-> "_format_html_report", of |-> "data",
                        value |-> r.value, raised |-> r.raised]
             /\ pc' = IF r.raised = "none" THEN "returned" ELSE "raised"
    /\ Unformatted

NextFormat == FormatStocksCall \/ FormatPortfolioCall \/ FormatHtmlCall

SpecFormat == InitFormat /\ [][NextFormat]_vars

(***************************************************************************)
(* Claims about the renderers                                              *)
(***************************************************************************)
FormattedStocks == pc = "returned" /\ ret.fn = "_format_stocks_for_notion"
FormattedHtml == pc = "returned" /\ ret.fn = "_format_html_report"

StocksOf(key) == Get(arg, key, PyList(<<>>))

\* true when the chunks of part occur, in a row, somewhere in text
Within(part, text) ==
    \E i \in 1..(Len(text) - Len(part) + 1) : SubSeq(text, i, i + Len(part) - 1) = part

PlaceholderRow(key) ==
    CASE key = "usTop10Stocks" -> NO_US_ROW
      [] key = "hkTop10Stocks" -> NoOtherRow("HK")
      [] OTHER -> NoOtherRow("CN")

\* C7 (rich text): the compact projection of an empty stock sequence is a
\* non-empty placeholder string.
C7_EmptyMarketHasPlaceholderText ==
    (FormattedStocks /\ StocksOf(ret.of).v = <<>>) => ret.value # <<>>

\* C7 (HTML): the HTML projection of a Report has, for every market whose
\* stock sequence is empty, that market's placeholder row.
C7_EmptyMarketHasPlaceholderRow ==
    FormattedHtml =>
        \A key \in MARKET_KEYS :
            StocksOf(key).v = <<>> => Within(PlaceholderRow(key), ret.value)

C7_HtmlWitness ==
    /\ FormattedHtml
    /\ StocksOf("hkTop10Stocks").v = <<>>
    /\ StocksOf("usTop10Stocks").v # <<>>

\* the serialization the claim calls natural: the picks' strings, in input
\* order, separated by blank lines
Natural(stocks) == JoinStocks(stocks.v, 1)

\* C8: the compact projection never exceeds 2000 characters; a serialization
\* of at most 2000 characters is returned unchanged, a longer one is cut to its
\* first 1995 characters followed by "...", 1998 characters in all.
C8_TruncatedAtTheTail ==
    FormattedStocks =>
        LET natural == Natural(StocksOf(ret.of))
        IN  /\ Len(ret.value) <= 2000
            /\ Len(natural) <= 2000 => ret.value = natural
            /\ Len(natural) > 2000 =>
                 /\ Len(ret.value) = 1998
                 /\ SubSeq(ret.value, 1, 1995) = SubSeq(natural, 1, 1995)
                 /\ SubSeq(ret.value, 1996, 1998) = <<".", ".", ".">>

\* a serialization of exactly 2001 characters was cut
C8_Witness ==
    /\ FormattedStocks
    /\ Len(Natural(StocksOf(ret.of))) = 2001
    /\ Len(ret.value) = 1998

\* a serialization of exactly 2000 characters was returned whole
C8_WitnessAtLimit ==
    /\ FormattedStocks
    /\ Len(Natural(StocksOf(ret.of))) = 2000
    /\ ret.value = Natural(StocksOf(ret.of))


(***************************************************************************)
(* The mail sink on its own.                                               *)
(***************************************************************************)
REPORT_SUBJECT(now) == <<"[weekly report] ">> \o Pad4(now.y) \o <<"-">> \o Pad2(now.m)
                          \o <<"-">> \o Pad2(now.d)

MailBodies == {<<"<html>report</html>">>, <<"JSON parse failed: ", "ValueError">>}

InitMail ==
    /\ pc = "mail"
    /\ SENDGRID_API_KEY \in Credentials
    /\ GMAIL_RECIPIENT_EMAILS \in RecipientLists
    /\ arg \in [to_list : {GMAIL_RECIPIENT_EMAILS},
                subject : {FAILURE_SUBJECT} \cup {REPORT_SUBJECT(now) : now \in Dates},
                message_text : MailBodies]
    /\ ret = None
    /\ ALPHA_VANTAGE_API_KEY = ""
    /\ TUSHARE_API_KEY = ""
    /\ NOTION_TOKEN = ""
    /\ NOTION_DATABASE_ID = ""
    /\ db = None
    /\ raw_gemini_text = None
    /\ analysis_data = None
    /\ NoEffects

\* ret remembers which of the provider's sends would raise
MailCall ==
    /\ pc = "mail"
    /\ \E fails \in FailPatterns(arg.to_list) :
         /\ outbox' = outbox \o send_email_notification(arg.to_list, arg.subject,
                                                        arg.message_text, fails)
         /\ notified' = Append(notified,
                               Notification(arg.to_list, arg.subject, arg.message_text))
         /\ ret' = [fails |-> fails]
    /\ pc' = "returned"
    /\ UNCHANGED <<env, raw_gemini_text, analysis_data, arg, calls, notion_pages,
                   finance_reports, escaped>>

SpecMail == InitMail /\ [][MailCall]_vars

MailEnabled == SENDGRID_API_KEY # "" /\ FROM_EMAIL # "" /\ arg.to_list # <<>>

\* C5: one send is attempted per recipient of the list, in order, whatever
\* sends fail; every recipient whose own send succeeds gets the message.
C5_EveryRecipientAttempted ==
    (pc = "returned" /\ MailEnabled) =>
        /\ Len(outbox) = Len(arg.to_list)
        /\ \A i \in 1..Len(arg.to_list) :
             /\ outbox[i].to = arg.to_list[i]
             /\ ~ret.fails[i] => outbox[i].delivered


(***************************************************************************)
(* The sinks main writes to, and the AI call it starts from.               *)
(***************************************************************************)
\* an except clause that returns its message
_get_gemini_analysis_message(reply) ==
    IF reply.kind = "raise" THEN PyStr(<<"Gemini API call failed: ", reply.msg>>)
    ELSE reply.body

\* the reply's text, or None for whatever the request or the unpacking raised
_get_gemini_analysis(reply) ==
    IF reply.kind = "raise" THEN None ELSE reply.body

Saved(value, written) == [value |-> value, written |-> written]

Page(title, sentiment, summary, commentary, portfolio, us, hk, cn) ==
    [Title |-> title, OverallSentiment |-> sentiment, OverallSummary |-> summary,
     DailyCommentary |-> commentary, InvestmentPortfolio |-> portfolio,
     usTop10Stocks |-> us, hkTop10Stocks |-> hk, cnTop10Stocks |-> cn]

\* create_fails: notion.pages.create raises
_save_to_notion(data, now, create_fails) ==
    IF NOTION_TOKEN = "" \/ NOTION_DATABASE_ID = "" THEN Saved(FALSE, <<>>)
    ELSE
    LET us_stocks_formatted == _format_stocks_for_notion(Get(data, "usTop10Stocks", PyList(<<>>)))
        hk_stocks_formatted == _format_stocks_for_notion(Get(data, "hkTop10Stocks", PyList(<<>>)))
        cn_stocks_formatted == _format_stocks_for_notion(Get(data, "cnTop10Stocks", PyList(<<>>)))
        portfolio_formatted ==
            _format_portfolio_for_notion(Get(data, "investmentPortfolio", PyDict(<<>>)))
        overall_sentiment == Get(data, "overallSentiment", PyStr(NA))
    IN  IF \/ us_stocks_formatted.raised # "none"
           \/ hk_stocks_formatted.raised # "none"
           \/ cn_stocks_formatted.raised # "none"
           \/ portfolio_formatted.raised # "none"
           \/ create_fails
        THEN Saved(FALSE, <<>>)
        ELSE Saved(TRUE,
                   <<Page(REPORT_SUBJECT(now),
                          IF NotNA(overall_sentiment) THEN overall_sentiment ELSE None,
                          Get(data, "overallSummary", PyStr(NA)),
                          Get(data, "dailyCommentary", PyStr(NA)),
                          portfolio_formatted.value, us_stocks_formatted.value,
                          hk_stocks_formatted.value, cn_stocks_formatted.value)>>)

\* the document id at the end of the path of line 515
LATEST == "latest"

Document(id, data) == [document |-> id, data |-> data]

\* a set that merges the new fields into the document that is there
DocSet_merge(collection, write) ==
    LET old == {d \in collection : d.document = write.document}
    IN  IF old = {} THEN collection \cup {write}
        ELSE (collection \ old)
                \cup {Document(write.document, Update(d.data, write.data)) : d \in old}

\* doc_ref.set(firestore_data): the document is created or replaced whole
DocSet(collection, write) ==
    {d \in collection : d.document # write.document} \cup {write}

\* set_fails: doc_ref.set raises
_save_to_firestore(data, set_fails) ==
    IF ~Truthy(db) THEN Saved(FALSE, <<>>)
    ELSE IF set_fails THEN Saved(FALSE, <<>>)
    ELSE Saved(TRUE, <<Document(LATEST, data)>>)

(***************************************************************************)
(* main, one step per call it makes                                        *)
(***************************************************************************)
PickText(code, name) ==
    Obj(<<Member("stockCode", Q(code)), Member("companyName", Q(<<name>>)),
          Member("reason", Q(<<"r">>))>>)

APPLE_TEXT == PickText(<<"A", "A", "P", "L">>, "A")
TENCENT_TEXT == PickText(<<"7", "0", "0", ".", "H", "K">>, "T")
MOUTAI_TEXT == PickText(<<"6", "0", "0", "5", "1", "9", ".", "S", "H">>, "M")
NAMELESS_TEXT == Obj(<<Member("companyName", Q(<<"N">>)), Member("reason", Q(<<"r">>))>>)

PORTFOLIO_TEXT ==
    Obj(<<Member("capital", Q(<<"100k">>)),
          Member("investmentPlan",
                 Arr(<<Obj(<<Member("assetName", Q(<<"ETF">>))>>)>>))>>)

NEWS_TEXT == Arr(<<Obj(<<Member("title", Q(<<"news">>)), Member("url", Q(<<"http://n">>))>>)>>)

ReportText(summary, us, hk, cn, portfolio) ==
    <<"Here is the data:", " ">>
        \o Obj(<<Member("overallSentiment", Q(<<"positive">>)),
                 Member("overallSummary", summary),
                 Member("dailyCommentary", Q(<<"c">>)),
                 Member("usTop10Stocks", Arr(us)),
                 Member("hkTop10Stocks", Arr(hk)),
                 Member("cnTop10Stocks", Arr(cn)),
                 Member("investmentPortfolio", portfolio),
                 Member("relatedNewsLinks", NEWS_TEXT)>>)

\* what the AI may answer: full reports, reports with fields of another type
\* or missing, and texts that are no JSON object
AiTexts ==
    { ReportText(Q(<<"S">>), <<APPLE_TEXT>>, <<TENCENT_TEXT>>, <<MOUTAI_TEXT>>, PORTFOLIO_TEXT),
      ReportText(Q(<<"S">>), <<>>, <<>>, <<>>, PORTFOLIO_TEXT),
      ReportText(<<"7">>, <<APPLE_TEXT>>, <<>>, <<>>, PORTFOLIO_TEXT),
      ReportText(Q(<<"S">>), <<APPLE_TEXT>>, <<>>, <<>>, <<"null">>),
      ReportText(Q(<<"S">>), <<>>, <<NAMELESS_TEXT>>, <<>>, PORTFOLIO_TEXT),
      Obj(<<>>),
      <<"Sorry, no data this week.">>,
      <<"}", " ", "{">>,
      <<"{", "\"", "overallSummary", "\"", ":", "}">>,
      Obj(<<Member("overallSummary", Q(<<"S">>))>>) \o <<" ", "{">> }

\* requests.post raising, raise_for_status raising, a body without
\* candidates[0].content.parts[0].text, and an empty text
GeminiReplies ==
    {Raises("ConnectionError"), Raises("HTTP 500"), Raises("KeyError: 'candidates'"),
     Reply("ok", "", PyStr(<<>>))}
        \cup {Reply("ok", "", PyStr(t)) : t \in AiTexts}

FIRESTORE_CLIENT == [t |-> "Client", v |-> <<>>]

\* the day of the run
RunDates == {[y |-> 2025, m |-> 7, d |-> 15]}

Init ==
    /\ pc = "start"
    /\ SENDGRID_API_KEY \in Credentials
    /\ GMAIL_RECIPIENT_EMAILS \in SomeRecipientLists
    /\ ALPHA_VANTAGE_API_KEY \in Credentials
    /\ TUSHARE_API_KEY \in Credentials
    /\ NOTION_TOKEN \in Credentials
    /\ NOTION_DATABASE_ID \in IF NOTION_TOKEN = "" THEN {""} ELSE {"", "dbid"}
    /\ db \in {None, FIRESTORE_CLIENT}
    /\ raw_gemini_text = None
    /\ analysis_data = None
    /\ arg = None
    /\ ret = None
    /\ NoEffects

\* lines 922-925
GetAnalysis ==
    /\ pc = "start"
    /\ \E reply \in GeminiReplies :
         /\ raw_gemini_text' = _get_gemini_analysis(reply)
         /\ pc' = IF Truthy(_get_gemini_analysis(reply)) THEN "parse" ELSE "aborted"
         \* arg remembers what the provider did
         /\ arg' = reply
    /\ UNCHANGED <<env, analysis_data, ret, notified, outbox, calls, notion_pages,
                   finance_reports, escaped>>

\* lines 928-931
Parse ==
    /\ pc = "parse"
    /\ \E now \in RunDates, fails \in FailPatterns(GMAIL_RECIPIENT_EMAILS) :
         LET r == _parse_gemini_response(raw_gemini_text, now, fails)
         IN  /\ notified' = notified \o r.notified
             /\ outbox' = outbox \o r.sent
             /\ analysis_data' = r.value
             /\ escaped' = r.raised
             /\ pc' = IF r.raised # "none" THEN "crashed"
                      ELSE IF ~Truthy(r.value) THEN "aborted"
                      ELSE "enrich_us"
    /\ UNCHANGED <<env, raw_gemini_text, arg, ret, calls, notion_pages, finance_reports>>

\* one of lines 935-937: the list is kept in ret until all three are there;
\* the picks are updated in place, so the Report's own list shows them too
Enrich(key, market_type, local, then) ==
    /\ \E outs \in OutcomesFor(Get(analysis_data, key, PyList(<<>>)), market_type) :
         LET r == _enrich_stock_data(Get(analysis_data, key, PyList(<<>>)), market_type, outs)
         IN  /\ calls' = calls \o r.calls
             /\ analysis_data' = IF r.raised = "none" /\ r.value.v # <<>>
                                  THEN Set(analysis_data, key, r.value)
                                  ELSE analysis_data
             /\ ret' = IF ret = None THEN [l \in {local} |-> r.value]
                       ELSE [l \in DOMAIN ret \cup {local} |->
                                IF l = local THEN r.value ELSE ret[l]]
             /\ escaped' = r.raised
             /\ pc' = IF r.raised # "none" THEN "crashed" ELSE then
    /\ UNCHANGED <<env, raw_gemini_text, arg, notified, outbox, notion_pages,
                   finance_reports>>

\* line 935
EnrichUs ==
    /\ pc = "enrich_us"
    /\ Enrich("usTop10Stocks", "us", "us_stocks", "enrich_hk")

\* line 936
EnrichHk ==
    /\ pc = "enrich_hk"
    /\ Enrich("hkTop10Stocks", "hk", "hk_stocks", "enrich_cn")

\* line 937
EnrichCn ==
    /\ pc = "enrich_cn"
    /\ Enrich("cnTop10Stocks", "cn", "cn_stocks", "assign")

\* lines 939-941
Assign ==
    /\ pc = "assign"
    /\ analysis_data' = Set(Set(Set(analysis_data, "usTop10Stocks", ret.us_stocks),
                                "hkTop10Stocks", ret.hk_stocks),
                            "cnTop10Stocks", ret.cn_stocks)
    /\ pc' = "save_notion"
    /\ UNCHANGED <<env, raw_gemini_text, arg, ret, notified, outbox, calls, notion_pages,
                   finance_reports, escaped>>

\* line 944
SaveNotion ==
    /\ pc = "save_notion"
    /\ \E now \in RunDates, create_fails \in BOOLEAN :
         notion_pages' = notion_pages \o _save_to_notion(analysis_data, now, create_fails).written
    /\ pc' = "save_firestore"
    /\ UNCHANGED <<env, raw_gemini_text, analysis_data, arg, ret, notified, outbox, calls,
                   finance_reports, escaped>>

\* a main that gives up when the database write did not go through
SaveFirestore_or_stop ==
    /\ pc = "save_firestore"
    /\ \E set_fails \in BOOLEAN :
         LET r == _save_to_firestore(analysis_data, set_fails)
         IN  /\ finance_reports' = IF r.value THEN DocSet(finance_reports, r.written[1])
                                    ELSE finance_reports
             /\ pc' = IF r.value THEN "report" ELSE "aborted"
    /\ UNCHANGED <<env, raw_gemini_text, analysis_data, arg, ret, notified, outbox, calls,
                   notion_pages, escaped>>

\* line 945
SaveFirestore ==
    /\ pc = "save_firestore"
    /\ \E set_fails \in BOOLEAN :
         LET r == _save_to_firestore(analysis_data, set_fails)
         IN  finance_reports' = IF r.value THEN DocSet(finance_reports, r.written[1])
                                 ELSE finance_reports
    /\ pc' = "report"
    /\ UNCHANGED <<env, raw_gemini_text, analysis_data, arg, ret, notified, outbox, calls,
                   notion_pages, escaped>>

\* a main that looks at what _save_to_notion returned and keeps the report
\* back when no page was created
SendReport_if_page_saved ==
    /\ pc = "report"
    /\ \E now \in RunDates, fails \in FailPatterns(GMAIL_RECIPIENT_EMAILS) :
         LET html_report == _format_html_report(analysis_data, now)
             subject == REPORT_SUBJECT(now)
         IN  IF html_report.raised # "none"
             THEN /\ escaped' = html_report.raised
                  /\ pc' = "crashed"
                  /\ UNCHANGED <<notified, outbox>>
             ELSE IF notion_pages = <<>>
             THEN /\ escaped' = "none"
                  /\ pc' = "done"
                  /\ UNCHANGED <<notified, outbox>>
             ELSE /\ notified' = Append(notified,
                                        Notification(GMAIL_RECIPIENT_EMAILS, subject,
                                                     html_report.value))
                  /\ outbox' = outbox \o send_email_notification(GMAIL_RECIPIENT_EMAILS,
                                                                 subject, html_report.value,
                                                                 fails)
                  /\ escaped' = "none"
                  /\ pc' = "done"
    /\ UNCHANGED <<env, raw_gemini_text, analysis_data, arg, ret, calls, notion_pages,
                   finance_reports>>

\* lines 948-952
SendReport ==
    /\ pc = "report"
    /\ \E now \in RunDates, fails \in FailPatterns(GMAIL_RECIPIENT_EMAILS) :
         LET html_report == _format_html_report(analysis_data, now)
             subject == REPORT_SUBJECT(now)
         IN  IF html_report.raised # "none"
             THEN /\ escaped' = html_report.raised
                  /\ pc' = "crashed"
                  /\ UNCHANGED <<notified, outbox>>
             ELSE /\ notified' = Append(notified,
                                        Notification(GMAIL_RECIPIENT_EMAILS, subject,
                                                     html_report.value))
                  /\ outbox' = outbox \o send_email_notification(GMAIL_RECIPIENT_EMAILS,
                                                                 subject, html_report.value,
                                                                 fails)
                  /\ escaped' = "none"
                  /\ pc' = "done"
    /\ UNCHANGED <<env, raw_gemini_text, analysis_data, arg, ret, calls, notion_pages,
                   finance_reports>>

Next ==
    \/ GetAnalysis
    \/ Parse
    \/ EnrichUs
    \/ EnrichHk
    \/ EnrichCn
    \/ Assign
    \/ SaveNotion
    \/ SaveFirestore
    \/ SendReport

Spec == Init /\ [][Next]_vars


(***************************************************************************)
(* Claims about a whole run                                                *)
(***************************************************************************)
Parsed == pc \notin {"start", "parse"} /\ Truthy(raw_gemini_text)

\* no candidate can be cut out of the text
ExtractionFails(text) ==
    NoOpeningBrace(text) \/ NoClosingBrace(text) \/ ClosingBeforeOpening(text)

FirstBrace(text) == Min({i \in 1..Len(text) : text[i] = "{"})
LastBrace(text) == Max({i \in 1..Len(text) : text[i] = "}"})

\* the AI response is malformed: no candidate, or a candidate that is no JSON
Malformed(text) ==
    \/ ExtractionFails(text)
    \/ ~json_loads(SubSeq(text, FirstBrace(text), LastBrace(text))).ok

IsFailureMail(mail) ==
    /\ mail.subject = FAILURE_SUBJECT
    /\ Within(raw_gemini_text.v, mail.body)

\* C3: when the AI response is malformed, the mail sink is handed one failure
\* mail for the recipient list whose body holds the raw response, whatever is
\* sent is that mail, and the run aborts there: no provider call, no wiki page,
\* no database write, no report mail.
C3_MalformedAborts ==
    (Parsed /\ Malformed(raw_gemini_text.v)) =>
        /\ pc = "aborted"
        /\ Len(notified) = 1
        /\ IsFailureMail(notified[1])
        /\ notified[1].to_list = GMAIL_RECIPIENT_EMAILS
        /\ (SENDGRID_API_KEY # "" /\ FROM_EMAIL # "") =>
              /\ outbox # <<>>
              /\ outbox[1].to = GMAIL_RECIPIENT_EMAILS[1]
        /\ \A i \in 1..Len(outbox) : IsFailureMail(outbox[i])
        /\ calls = <<>>
        /\ notion_pages = <<>>
        /\ finance_reports = {}
        /\ analysis_data = None

\* C3's case: braces around what is no JSON, and the failure mail delivered
C3_Witness ==
    /\ pc = "aborted"
    /\ ~ExtractionFails(raw_gemini_text.v)
    /\ Malformed(raw_gemini_text.v)
    /\ Len(outbox) = 2
    /\ outbox[2].delivered
    /\ IsFailureMail(outbox[2])

\* C4: no exception escapes main, whatever the AI answers and whatever the
\* external calls do.
C4_NothingEscapesMain == pc # "crashed" /\ escaped = "none"


(***************************************************************************)
(* Claims about normalization                                              *)
(***************************************************************************)
\* the object json.loads gave, before it is normalized
Loaded == json_loads(ret.json_text).val

Normalized == pc = "returned" /\ arg.t = "str" /\ ret.value.t = "dict"

\* a mapping whose values are all strings
StringMapping(x) == x.t = "dict" /\ \A i \in 1..Len(x.v) : x.v[i][2].t = "str"

\* the 'key: value' pairs of a mapping, in its order, blank lines between
PairsText(pairs) ==
    Concat([i \in 1..Len(pairs) |->
                <<pairs[i][1], ":", " ">> \o pairs[i][2].v
                    \o (IF i < Len(pairs) THEN <<"\n", "\n">> ELSE <<>>)])

\* C11: a dailyCommentary that is a mapping of string keys to string values
\* is replaced by one string: every entry as 'key: value', in the mapping's
\* order, separated by blank lines, no value dropped.
C11_CommentaryFlattened ==
    (Normalized /\ StringMapping(Get(Loaded, "dailyCommentary", None))) =>
        /\ Get(ret.value, "dailyCommentary", None)
              = PyStr(PairsText(Get(Loaded, "dailyCommentary", None).v))
        /\ \A i \in 1..Len(Get(Loaded, "dailyCommentary", None).v) :
             Within(Get(Loaded, "dailyCommentary", None).v[i][2].v,
                    Get(ret.value, "dailyCommentary", None).v)

\* C11's case: a mapping of two entries, both in the string, in order
C11_Witness ==
    /\ Normalized
    /\ StringMapping(Get(Loaded, "dailyCommentary", None))
    /\ Len(Get(Loaded, "dailyCommentary", None).v) = 2
    /\ Get(ret.value, "dailyCommentary", None)
          = PyStr(<<"US", ":", " ", "u", "\n", "\n", "HK", ":", " ", "h", "k">>)


\* days from 1 January 2000 to the date
DayNumber(t) ==
    LET Years == 2000..(t.y - 1)
        Months == 1..(t.m - 1)
        leaps == Cardinality({y \in Years : IsLeap(y)})
        RECURSIVE MonthDays(_)
        MonthDays(m) == IF m = 0 THEN 0 ELSE DaysInMonth(t.y, m) + MonthDays(m - 1)
    IN  365 * Cardinality(Years) + leaps + MonthDays(t.m - 1) + t.d

Calendar == [y : 2023..2025, m : 1..12, d : 1..31]

\* the label of the range from start to end_date: the start in full, the end
\* by its day
RangeLabel(start, end_date) ==
    <<"past week (">> \o Pad4(start.y) \o <<"y">> \o Pad2(start.m) \o <<"m">>
        \o Pad2(start.d) \o <<"d", "-">> \o Pad2(end_date.d) \o <<"d", "):", "\n", "\n">>

InputSummary == Get(Loaded, "overallSummary", PyStr(NA))

\* C12: after every successful normalization overallSummary is the range label
\* followed by the input's summary ('N/A' if it had none); the label ends at
\* the current date and starts exactly 6 days before it; the summary is not
\* empty.
C12_SummaryLabelled ==
    Normalized =>
        \E start \in Calendar :
            /\ start.d <= DaysInMonth(start.y, start.m)
            /\ DayNumber(ret.now) - DayNumber(start) = 6
            /\ Get(ret.value, "overallSummary", None)
                  = PyStr(RangeLabel(start, ret.now) \o InputSummary.v)
            /\ Get(ret.value, "overallSummary", None).v # <<>>

\* C12's case: a report without a summary, on 3 March of a leap year
C12_Witness ==
    /\ Normalized
    /\ ~Has(Loaded, "overallSummary")
    /\ ret.now = [y |-> 2024, m |-> 3, d |-> 3]
    /\ Get(ret.value, "overallSummary", None)
          = PyStr(RangeLabel([y |-> 2024, m |-> 2, d |-> 26], ret.now) \o NA)


(***************************************************************************)
(* Claims about the sinks of a run                                         *)
(***************************************************************************)
NotionConfigured == NOTION_TOKEN # "" /\ NOTION_DATABASE_ID # ""

\* the page creation was attempted and no page came of it
WikiWriteFailed ==
    /\ pc \in {"save_firestore", "report", "done"}
    /\ NotionConfigured
    /\ notion_pages = <<>>

IsReportSubject(subject) == \E now \in RunDates : subject = REPORT_SUBJECT(now)

\* C13 as stated: in a run whose wiki page creation fails the report email is
\* not sent and a distinct partial-failure notification is sent instead.
C13_WikiFailureSuppressesReport ==
    (WikiWriteFailed /\ pc = "done") =>
        /\ \A i \in 1..Len(notified) : ~IsReportSubject(notified[i].subject)
        /\ \E i \in 1..Len(notified) :
             /\ ~IsReportSubject(notified[i].subject)
             /\ notified[i].subject # FAILURE_SUBJECT

\* C13 amended: a wiki write failure changes nothing of what follows.  No
\* notification other than the parse-failure mail and the report mail is ever
\* handed to the mail sink, and a run that ends after a failed page creation
\* has handed it the report mail for the recipient list, as any other run that
\* ends does.
C13_WikiFailureIsIgnored ==
    /\ \A i \in 1..Len(notified) :
         notified[i].subject = FAILURE_SUBJECT \/ IsReportSubject(notified[i].subject)
    /\ pc = "done" =>
         /\ Len(notified) = 1
         /\ IsReportSubject(notified[1].subject)
         /\ notified[1].to_list = GMAIL_RECIPIENT_EMAILS
         /\ \E now \in RunDates :
              notified[1].body = _format_html_report(analysis_data, now).value
         /\ (SENDGRID_API_KEY # "" /\ FROM_EMAIL # "") =>
              /\ outbox # <<>>
              /\ outbox[1].to = GMAIL_RECIPIENT_EMAILS[1]
              /\ outbox[1].body = notified[1].body

\* C13's case: the page creation failed and the report mail was delivered
C13_Witness ==
    /\ WikiWriteFailed
    /\ pc = "done"
    /\ Len(outbox) = 2
    /\ outbox[1].delivered
    /\ IsReportSubject(outbox[1].subject)


\* the report mail of the Report as it stands
ReportMailOf(data) ==
    {Notification(GMAIL_RECIPIENT_EMAILS, REPORT_SUBJECT(now),
                  _format_html_report(data, now).value) : now \in RunDates}

Renders(data) == \A now \in RunDates : _format_html_report(data, now).raised = "none"

C14_WitnessNoClient ==
    /\ pc = "done"
    /\ db = None
    /\ Len(notion_pages) = 1
    /\ Len(notified) = 1
    /\ IsReportSubject(notified[1].subject)


(***************************************************************************)
(* Claims about the AI call                                                *)
(***************************************************************************)
\* the call raised (connection, HTTP status, a body without the text) or gave
\* an empty text
AiCallFailed(reply) == reply.kind = "raise" \/ reply.body = PyStr(<<>>)

\* C15: after a failed AI call main ends at once: the parser is not called
\* (no Report, no failure mail), no market-data provider is called, nothing is
\* written to the wiki or the database and nothing is mailed.
C15_AiFailureAborts ==
    (pc # "start" /\ AiCallFailed(arg)) =>
        /\ pc = "aborted"
        /\ ~Truthy(raw_gemini_text)
        /\ analysis_data = None
        /\ notified = <<>>
        /\ outbox = <<>>
        /\ calls = <<>>
        /\ notion_pages = <<>>
        /\ finance_reports = {}
        /\ escaped = "none"

\* C15's case: an HTTP error with every credential and sink in place
C15_Witness ==
    /\ pc = "aborted"
    /\ arg = Raises("HTTP 500")
    /\ SENDGRID_API_KEY # ""
    /\ GMAIL_RECIPIENT_EMAILS # <<>>
    /\ NotionConfigured
    /\ db # None
    /\ ALPHA_VANTAGE_API_KEY # ""

\* the same for a reply whose text is empty
C15_WitnessEmptyText ==
    /\ pc = "aborted"
    /\ arg = Reply("ok", "", PyStr(<<>>))
    /\ SENDGRID_API_KEY # ""


(***************************************************************************)
(* A run after earlier runs: the collection may hold what an earlier run   *)
(* wrote, a Report with fields the Report of this run need not have.       *)
(***************************************************************************)
EARLIER_REPORT ==
    Report(PyList(<<Quoted>>), PyList(<<>>),
           PyDict(<< <<"capital", PyStr(<<"100k">>)>>,
                     <<"investmentPlan", PyList(<<PLAN_ITEM>>)>> >>))

InitAfterRuns ==
    /\ pc = "start"
    /\ SENDGRID_API_KEY = ""
    /\ GMAIL_RECIPIENT_EMAILS \in {<<>>, <<"a@x.io", "b@x.io">>}
    /\ ALPHA_VANTAGE_API_KEY \in Credentials
    /\ TUSHARE_API_KEY = ""
    /\ NOTION_TOKEN = ""
    /\ NOTION_DATABASE_ID = ""
    /\ db \in {None, FIRESTORE_CLIENT}
    /\ raw_gemini_text = None
    /\ analysis_data = None
    /\ arg = None
    /\ ret = None
    /\ notified = <<>>
    /\ outbox = <<>>
    /\ calls = <<>>
    /\ notion_pages = <<>>
    /\ finance_reports \in {{}, {Document(LATEST, EARLIER_REPORT)}}
    /\ escaped = "none"

SpecAfterRuns == InitAfterRuns /\ [][Next]_vars

\* C16, the collection: it never holds more than the one document 'latest'.
C16_OneLatestDocument ==
    /\ Cardinality(finance_reports) <= 1
    /\ \A d \in finance_reports : d.document = LATEST

\* C16, the write: only the database step of main touches the collection; it
\* leaves it as it was (no client, or the set failed) or leaves exactly one
\* document, 'latest', holding the full Report of this run and no field of the
\* document that was there.
C16_OverwriteSemantics ==
    [][ /\ pc # "save_firestore" => UNCHANGED finance_reports
        /\ pc = "save_firestore" =>
              \/ UNCHANGED finance_reports
              \/ /\ db # None
                 /\ finance_reports' = {Document(LATEST, analysis_data)}
        /\ C16_OneLatestDocument' ]_vars

\* C16's case: an earlier run's document, with an investment portfolio, was
\* replaced by the Report of a run that has none
C16_Witness ==
    /\ pc = "done"
    /\ finance_reports = {Document(LATEST, analysis_data)}
    /\ ~Has(analysis_data, "investmentPortfolio")
    /\ Has(EARLIER_REPORT, "investmentPortfolio")
    /\ \E reply \in GeminiReplies : arg = reply /\ reply.kind = "ok"
    /\ notified # <<>>


\* the three sentiments the prompt asks for (three CJK words in the source)
SENTIMENTS == {PyStr(<<"positive">>), PyStr(<<"negative">>), PyStr(<<"neutral">>)}

\* C17: every Report a successful normalization returns carries an
\* overallSentiment that is one of the three sentiments, whatever the AI
\* response held for it.
C17_SentimentIsOneOfThree ==
    Normalized =>
        /\ Has(ret.value, "overallSentiment")
        /\ Get(ret.value, "overallSentiment", None) \in SENTIMENTS


(***************************************************************************)
(* The calls of one US pick                                                *)
(***************************************************************************)
UsEnriched ==
    /\ pc = "returned"
    /\ arg.market_type = "us"
    /\ ALPHA_VANTAGE_API_KEY # ""
    /\ arg.stocks_list.t = "list"

IsQuoteCall(c) == c.api = "alphavantage.GLOBAL_QUOTE"
IsOverviewCall(c) == c.api = "alphavantage.OVERVIEW"
IsDelay(c) == c.api = "time.sleep" /\ c.secs = SLEEP_SECONDS

\* where in the log the quote requests are, and the i-th of them
QuotePositions == {j \in DOMAIN calls : IsQuoteCall(calls[j])}
QuoteAt(i) ==
    CHOOSE j \in QuotePositions : Cardinality({k \in QuotePositions : k <= j}) = i

\* the calls from the i-th quote request up to the next one
CallsOfPick(i) ==
    LET last == IF i < Cardinality(QuotePositions) THEN QuoteAt(i + 1) - 1 ELSE Len(calls)
    IN  SubSeq(calls, QuoteAt(i), last)

\* the quote request answered with a quote that is not empty
QuoteReturned(out) ==
    /\ out.quote.kind = "ok"
    /\ Truthy(Get(out.quote.body, "Global Quote", PyDict(<<>>)))

\* C18: with the credential present the calls of one US pick are the quote
\* request, then the fixed delay, then the fundamentals request; the
\* fundamentals are requested only after a quote that is not empty came back
\* and the delay was taken, and a pick whose quote request failed or brought
\* no quote gets no fundamentals request and is defaulted.
C18_QuoteDelayFundamentals ==
    UsEnriched =>
        /\ Cardinality(QuotePositions) = Len(arg.stocks_list.v)
        /\ (calls # <<>> => IsQuoteCall(calls[1]))
        /\ \A i \in 1..Len(arg.stocks_list.v) :
             LET seg == CallsOfPick(i)
                 code == TickerOf(InputPick(i))
                 overviews == {k \in DOMAIN seg : IsOverviewCall(seg[k])}
             IN  /\ seg[1].symbol = code
                 /\ IF QuoteReturned(ret.outs[i])
                    THEN /\ overviews = {3}
                         /\ IsDelay(seg[2])
                         /\ seg[3].symbol = code
                    ELSE /\ overviews = {}
                         /\ seg = <<Call("alphavantage.GLOBAL_QUOTE", code, 0)>>
                         /\ SkippedPick(i, SevenFields)

\* C18's case: the first pick's quote request times out, the second pick's
\* brings a quote and its fundamentals are fetched
C18_Witness ==
    /\ UsEnriched
    /\ Len(arg.stocks_list.v) = 2
    /\ ret.outs[1].quote.kind = "raise"
    /\ ret.outs[2] = Outcome(QuoteUp, OverviewBig, NoReply)
    /\ Len(calls) = 5
    /\ IsNA(ResultPick(1), "price")
    /\ ~IsNA(ResultPick(2), "price")

\* C18's other case: the provider answers the quote request without a quote
C18_WitnessNoQuote ==
    /\ UsEnriched
    /\ Len(arg.stocks_list.v) = 1
    /\ ret.outs[1].quote = QuoteNone
    /\ Len(calls) = 1
    /\ IsNA(ResultPick(1), "price")


(***************************************************************************)
(* _get_us_stock_data called on its own, the provider's percent change     *)
(* ranging over short texts                                                *)
(***************************************************************************)
MaxChangeLen == 5

ChangeChars == {"-", "+", "5", ".", "%"}
\* the provider's "10. change percent": a text, or None for a quote without it
Changes == {None} \cup {PyStr(t) : t \in SeqsUpTo(ChangeChars, MaxChangeLen)}

QuoteWith(change) ==
    Reply("ok", "", PyDict(<< <<"Global Quote",
        PyDict(<< <<"05. price", PyStr(<<"9", ".", "5">>)>> >>
               \o (IF change = None THEN <<>>
                   ELSE << <<"10. change percent", change>> >>))>> >>))

InitQuote ==
    /\ pc = "quote"
    /\ arg \in [stock_code : {TickerOf(APPLE)}, change : Changes]
    /\ ret = None
    /\ SENDGRID_API_KEY = ""
    /\ GMAIL_RECIPIENT_EMAILS = <<>>
    /\ ALPHA_VANTAGE_API_KEY \in Credentials
    /\ TUSHARE_API_KEY = ""
    /\ NOTION_TOKEN = ""
    /\ NOTION_DATABASE_ID = ""
    /\ db = None
    /\ raw_gemini_text = None
    /\ analysis_data = None
    /\ NoEffects

QuoteCall ==
    /\ pc = "quote"
    /\ \E overview \in {OverviewBig, OverviewSmall, Raises("503")} :
         LET out == Outcome(QuoteWith(arg.change), overview, NoReply)
             r == _get_us_stock_data(arg.stock_code, out)
         IN  /\ ret' = [value |-> r.value, raised |-> r.raised, out |-> out]
             /\ calls' = calls \o r.calls
             /\ pc' = "returned"
    /\ UNCHANGED <<env, raw_gemini_text, analysis_data, arg, notified, outbox,
                   notion_pages, finance_reports, escaped>>

SpecQuote == InitQuote /\ [][QuoteCall]_vars

\* the fetch returned the pick's market data
UsFetched == pc = "returned" /\ ret.value.t = "dict"

\* the provider's percent change without the '%' at its ends ('N/A' if the
\* quote has none)
ChangeText ==
    LET t == IF arg.change = None THEN NA ELSE arg.change.v
        kept == {i \in DOMAIN t : t[i] # "%"}
    IN  IF kept = {} THEN <<>> ELSE SubSeq(t, Min(kept), Max(kept))

\* digits with at most one '.'
PlainDecimal(t) ==
    /\ \A i \in DOMAIN t : t[i] \in Digits \cup {"."}
    /\ Cardinality({i \in DOMAIN t : t[i] = "."}) <= 1
    /\ \E i \in DOMAIN t : t[i] \in Digits

Signed(t) == \E i \in DOMAIN t : t[i] \in {"-", "+"}

\* C19: after a successful US fetch the week-over-week change is 'N/A' or a
\* number that is not negative: the number the provider's percent change
\* writes when that text, '%' stripped, is digits with at most one '.', and
\* 'N/A' otherwise, so for every signed change.
C19_WeeklyChangeUnsignedOrNA ==
    UsFetched =>
        LET weeklyChange == Get(ret.value, "weeklyChange", None)
        IN  /\ Has(ret.value, "weeklyChange")
            /\ IF PlainDecimal(ChangeText)
               THEN /\ weeklyChange = PyFloat(ChangeText)
                    /\ ~Signed(weeklyChange.v)
               ELSE weeklyChange = PyStr(NA)
            /\ (Signed(ChangeText) => weeklyChange = PyStr(NA))

\* C19's case: the provider reports a fall of 5.5 percent
C19_Witness ==
    /\ UsFetched
    /\ arg.change = PyStr(<<"-", "5", ".", "5", "%">>)
    /\ Get(ret.value, "weeklyChange", None) = PyStr(NA)
    /\ Get(ret.value, "price", None) # PyStr(NA)

\* C19's other case: a rise written without a sign
C19_WitnessRise ==
    /\ UsFetched
    /\ arg.change = PyStr(<<"5", ".", "5", "%">>)
    /\ Get(ret.value, "weeklyChange", None) = PyFloat(<<"5", ".", "5">>)

====
